---------------------------- MODULE Spec2Model ----------------------------
(***************************************************************************)
(* AgentMail registry program (amilzbot/agentmail, program/src).           *)
(*                                                                         *)
(* The ledger is a map from addresses to accounts (lamports, owner, data   *)
(* bytes).  One step is one instruction: the entrypoint dispatches on the  *)
(* tag byte to process_register_agent / process_update_agent /             *)
(* process_deregister_agent, each of which validates the account list,     *)
(* decodes the payload and reads / writes the AgentRegistry bytes of the   *)
(* record slot.  Account data is modelled byte for byte.                   *)
(*                                                                         *)
(* A second specification, CodecSpec, drives the AgentRegistry struct on   *)
(* its own, the way the unit tests of state/agent_registry.rs do: new,     *)
(* set_name, set_inbox_url, touch and to_bytes / from_bytes.               *)
(***************************************************************************)
EXTENDS Integers, Sequences, FiniteSets, TLC

VARIABLES accounts, last, reg, reg_call

vars == <<accounts, last, reg, reg_call>>

(***************************************************************************)
(* Program constants                                                       *)
(***************************************************************************)
MAX_NAME_LEN == 64

MAX_INBOX_URL_LEN == 256

NAME_FIELD_LEN == 68

INBOX_URL_FIELD_LEN == 260

DATA_LEN == 1 + 1 + 6 + 32 + 68 + 260 + 8 + 8

VERSION == 1

\* traits/account.rs is not part of the sources at hand: the one-byte account
\* discriminator that to_bytes() puts in front of the version byte.
DISCRIMINATOR == 1

\* AccountSize::LEN: discriminator byte + version byte + DATA_LEN (the unit
\* test test_agent_registry_to_bytes reads the bump at bytes[2]).
LEN == 1 + 1 + DATA_LEN

\* get_current_timestamp(): a fixed placeholder value.
CURRENT_TIMESTAMP == 1707523200

(***************************************************************************)
(* Bytes                                                                   *)
(***************************************************************************)
Byte == 0..255

Zeros(n) == [i \in 1..n |-> 0]

AllZero(bytes) == \A i \in 1..Len(bytes) : bytes[i] = 0

\* (n as u32).to_le_bytes()
to_le_bytes_u32(n) ==
    << n % 256, (n \div 256) % 256, (n \div 65536) % 256, (n \div 16777216) % 256 >>

\* The largest value a model integer holds.  A decoded u32 at or above it is
\* only ever compared with the limits 64 and 256 and with payload lengths,
\* all far below, so every such value behaves like this one.
U32_SATURATED == 2147483647

\* u32::from_le_bytes([b0, b1, b2, b3]) as usize, of the four bytes of
\* `bytes` at the 0-based offset `off`.
from_le_bytes_u32(bytes, off) ==
    IF bytes[off + 4] >= 128
    THEN U32_SATURATED
    ELSE bytes[off + 1] + 256 * bytes[off + 2] + 65536 * bytes[off + 3]
            + 16777216 * bytes[off + 4]

\* i64::to_le_bytes() of a timestamp in 0 .. 2^31 - 1 (the clock value has
\* its upper four bytes clear).
to_le_bytes_i64(n) == to_le_bytes_u32(n) \o <<0, 0, 0, 0>>

\* Signed comparison a < b of two i64 values held as 8 little-endian bytes.
RECURSIVE LtUnsignedLE(_, _, _)
LtUnsignedLE(a, b, i) ==
    IF i = 0 THEN FALSE
    ELSE IF a[i] # b[i] THEN a[i] < b[i]
    ELSE LtUnsignedLE(a, b, i - 1)

i64_lt(a, b) ==
    LET na == a[8] >= 128
        nb == b[8] >= 128
    IN  IF na # nb THEN na ELSE LtUnsignedLE(a, b, 8)

(***************************************************************************)
(* Addresses.  An address is a name; its 32 key bytes are AddressBytes.    *)
(***************************************************************************)
SYSTEM_ID == "system"

PROGRAM_ID == "agentmail"

OTHER_PROGRAM == "other_program"

Authorities == {"A", "B"}

Payer == "payer"

\* A storage slot that some other program owns and fills as it likes.
FOREIGN_SLOT == "foreign"

\* Another one, holding a few bytes only.
FOREIGN_SHORT_SLOT == "foreign_short"

\* The u8 bump seeds the callers try.
Bumps == {254, 255}

\* Address::create_program_address([b"agentmail", authority, [bump]],
\* program_id): the derived address, or "none" where the hash lands on the
\* curve.  Distinct seeds give distinct addresses; about half of all bumps
\* are off the curve, so an authority has several valid bumps.
create_program_address(authority, bump) ==
    CASE authority = "A" /\ bump = 255 -> "pda_A_255"
      [] authority = "A" /\ bump = 254 -> "pda_A_254"
      [] authority = "B" /\ bump = 254 -> "pda_B_254"
      [] OTHER -> "none"

Slots == {"pda_A_255", "pda_A_254", "pda_B_254", FOREIGN_SLOT}

Addresses ==
    Authorities \cup {Payer, SYSTEM_ID, PROGRAM_ID} \cup Slots \cup {FOREIGN_SHORT_SLOT}

\* The 32 bytes of a key: Address::new_from_array([k; 32]).
AddressBytes(a) ==
    LET k == CASE a = "A" -> 1
               [] a = "B" -> 2
               [] a = Payer -> 3
               [] a = SYSTEM_ID -> 0
               [] a = PROGRAM_ID -> 9
               [] a = "pda_A_255" -> 21
               [] a = "pda_A_254" -> 22
               [] a = "pda_B_254" -> 23
               [] OTHER -> 30
    IN  [i \in 1..32 |-> k]

(***************************************************************************)
(* state/agent_registry.rs: the AgentRegistry struct and its codec         *)
(***************************************************************************)
\* Mutant: the length prefix written most significant byte first.
set_name_big_endian_prefix(registry, name) ==
    IF Len(name) > MAX_NAME_LEN
    THEN [err |-> "NameTooLong", registry |-> registry]
    ELSE [err |-> "Ok",
          registry |-> [registry EXCEPT !.name =
              <<0, 0, 0, Len(name)>> \o name
                  \o Zeros(NAME_FIELD_LEN - 4 - Len(name))]]

\* Mutant: the field is cleared before the length is checked.
set_name_clear_first(registry, name) ==
    IF Len(name) > MAX_NAME_LEN
    THEN [err |-> "NameTooLong",
          registry |-> [registry EXCEPT !.name = Zeros(NAME_FIELD_LEN)]]
    ELSE [err |-> "Ok",
          registry |-> [registry EXCEPT !.name =
              to_le_bytes_u32(Len(name)) \o name
                  \o Zeros(NAME_FIELD_LEN - 4 - Len(name))]]

\* Mutant: a name of exactly MAX_NAME_LEN bytes is turned away.
set_name_off_by_one(registry, name) ==
    IF Len(name) >= MAX_NAME_LEN
    THEN [err |-> "NameTooLong", registry |-> registry]
    ELSE [err |-> "Ok",
          registry |-> [registry EXCEPT !.name =
              to_le_bytes_u32(Len(name)) \o name
                  \o Zeros(NAME_FIELD_LEN - 4 - Len(name))]]

\* Mutant: the new value is written over the old one, the field not cleared.
set_name_no_clear(registry, name) ==
    IF Len(name) > MAX_NAME_LEN
    THEN [err |-> "NameTooLong", registry |-> registry]
    ELSE [err |-> "Ok",
          registry |-> [registry EXCEPT !.name =
              to_le_bytes_u32(Len(name)) \o name
                  \o SubSeq(registry.name, 5 + Len(name), NAME_FIELD_LEN)]]

\* set_name: the 68-byte field, or the error.
set_name(registry, name) ==
    IF Len(name) > MAX_NAME_LEN
    THEN [err |-> "NameTooLong", registry |-> registry]
    ELSE [err |-> "Ok",
          registry |-> [registry EXCEPT !.name =
              to_le_bytes_u32(Len(name)) \o name
                  \o Zeros(NAME_FIELD_LEN - 4 - Len(name))]]

set_inbox_url(registry, inbox_url) ==
    IF Len(inbox_url) > MAX_INBOX_URL_LEN
    THEN [err |-> "InboxUrlTooLong", registry |-> registry]
    ELSE [err |-> "Ok",
          registry |-> [registry EXCEPT !.inbox_url =
              to_le_bytes_u32(Len(inbox_url)) \o inbox_url
                  \o Zeros(INBOX_URL_FIELD_LEN - 4 - Len(inbox_url))]]

\* Mutant: the time lands in created_at as well, one second late.
touch_clobbers_created(registry, timestamp) ==
    [registry EXCEPT !.updated_at = to_le_bytes_i64(timestamp),
                     !.created_at = to_le_bytes_i64(timestamp + 1)]

\* Mutant: the stored time is one second early.
touch_earlier(registry, timestamp) ==
    [registry EXCEPT !.updated_at = to_le_bytes_i64(timestamp - 1)]

touch(registry, timestamp) ==
    [registry EXCEPT !.updated_at = to_le_bytes_i64(timestamp)]

\* Mutant: updated_at left at zero.
AgentRegistry_new_zero_updated(bump, authority, name, inbox_url, timestamp) ==
    LET r0 == [bump |-> bump,
               version |-> VERSION,
               padding |-> Zeros(6),
               authority |-> authority,
               name |-> Zeros(NAME_FIELD_LEN),
               inbox_url |-> Zeros(INBOX_URL_FIELD_LEN),
               created_at |-> to_le_bytes_i64(timestamp),
               updated_at |-> to_le_bytes_i64(0)]
        r1 == set_name(r0, name)
        r2 == set_inbox_url(r1.registry, inbox_url)
    IN  IF r1.err # "Ok" THEN r1 ELSE r2

\* AgentRegistry::new
AgentRegistry_new(bump, authority, name, inbox_url, timestamp) ==
    LET r0 == [bump |-> bump,
               version |-> VERSION,
               padding |-> Zeros(6),
               authority |-> authority,
               name |-> Zeros(NAME_FIELD_LEN),
               inbox_url |-> Zeros(INBOX_URL_FIELD_LEN),
               created_at |-> to_le_bytes_i64(timestamp),
               updated_at |-> to_le_bytes_i64(timestamp)]
        r1 == set_name(r0, name)
        r2 == set_inbox_url(r1.registry, inbox_url)
    IN  IF r1.err # "Ok" THEN r1 ELSE r2

\* Mutant: the authority comparison left out.
validate_authority_skipped(registry, provided_authority) == "Ok"

validate_authority(registry, provided_authority) ==
    IF registry.authority # provided_authority THEN "InvalidAuthority" ELSE "Ok"

\* Mutant: the two timestamps in the wrong order.
to_bytes_inner_swapped(registry) ==
    <<registry.bump, registry.version>> \o registry.padding \o registry.authority
        \o registry.name \o registry.inbox_url
        \o registry.updated_at \o registry.created_at

\* AccountSerialize::to_bytes_inner
to_bytes_inner(registry) ==
    <<registry.bump, registry.version>> \o registry.padding \o registry.authority
        \o registry.name \o registry.inbox_url
        \o registry.created_at \o registry.updated_at

\* AccountSerialize::to_bytes: discriminator, version, then the inner bytes.
to_bytes(registry) == <<DISCRIMINATOR, VERSION>> \o to_bytes_inner(registry)

\* AccountDeserialize::from_bytes: checks the length and the two header
\* bytes, then views the rest as the struct.
from_bytes(data) ==
    IF Len(data) # LEN THEN [err |-> "InvalidAccountData"]
    ELSE IF data[1] # DISCRIMINATOR THEN [err |-> "InvalidAccountData"]
    ELSE IF data[2] # VERSION THEN [err |-> "InvalidAccountData"]
    ELSE [err |-> "Ok",
          registry |-> [bump |-> data[3],
                        version |-> data[4],
                        padding |-> SubSeq(data, 5, 10),
                        authority |-> SubSeq(data, 11, 42),
                        name |-> SubSeq(data, 43, 110),
                        inbox_url |-> SubSeq(data, 111, 370),
                        created_at |-> SubSeq(data, 371, 378),
                        updated_at |-> SubSeq(data, 379, 386)]]

\* AccountSerialize::write_to_slice: the serialized bytes over the front of
\* the account's data.
write_to_slice(registry, slice) ==
    IF Len(slice) < LEN
    THEN [err |-> "AccountDataTooSmall", data |-> slice]
    ELSE [err |-> "Ok",
          data |-> to_bytes(registry) \o SubSeq(slice, LEN + 1, Len(slice))]

\* PdaSeeds::validate_pda: re-derive the address from the prefix, the
\* record's authority and the given bump, and compare with the account's.
validate_pda(registry, account_address, bump) ==
    LET auths == {a \in Authorities : AddressBytes(a) = registry.authority}
    IN  IF \E a \in auths : create_program_address(a, bump) = account_address
        THEN "Ok" ELSE "InvalidSeeds"

\* AgentRegistry::from_account
from_account(data, account_address) ==
    LET state == from_bytes(data)
    IN  IF state.err # "Ok" THEN state
        ELSE IF validate_pda(state.registry, account_address, state.registry.bump) # "Ok"
             THEN [err |-> "InvalidSeeds"]
             ELSE state

(***************************************************************************)
(* String::from_utf8                                                       *)
(***************************************************************************)
IsCont(b) == b >= 128 /\ b <= 191

\* The number of bytes of the sequence a leading byte opens; 0 for a byte
\* that opens none (a continuation byte, or a byte no encoding starts with).
Utf8Width(b) ==
    IF b <= 127 THEN 1
    ELSE IF b >= 194 /\ b <= 223 THEN 2
    ELSE IF b >= 224 /\ b <= 239 THEN 3
    ELSE IF b >= 240 /\ b <= 244 THEN 4
    ELSE 0

\* The byte at i is a leading byte followed by the continuation bytes its
\* width asks for, the first of them in the range the leading byte allows.
LeadOk(bytes, i) ==
    LET b == bytes[i]
        w == Utf8Width(b)
    IN  /\ w > 0
        /\ i + w - 1 <= Len(bytes)
        /\ \A k \in 1..(w - 1) : IsCont(bytes[i + k])
        /\ (b = 224 => bytes[i + 1] >= 160)
        /\ (b = 237 => bytes[i + 1] <= 159)
        /\ (b = 240 => bytes[i + 1] >= 144)
        /\ (b = 244 => bytes[i + 1] <= 143)

\* The continuation byte at j belongs to the sequence a leading byte opened
\* at most three bytes before it.
ContOk(bytes, j) ==
    \E k \in 1..3 :
        /\ j - k >= 1
        /\ Utf8Width(bytes[j - k]) > k
        /\ \A m \in 1..(k - 1) : IsCont(bytes[j - m])

\* Mutant: any bytes pass for UTF-8.
from_utf8_lenient(bytes) == TRUE

\* String::from_utf8(bytes).is_ok()
from_utf8(bytes) ==
    \A i \in 1..Len(bytes) :
        IF IsCont(bytes[i]) THEN ContOk(bytes, i) ELSE LeadOk(bytes, i)

\* AgentRegistry::get_name: the length prefix is checked against the field's
\* capacity before the bytes are sliced.
get_name(registry) ==
    LET len == from_le_bytes_u32(registry.name, 0)
    IN  IF len > MAX_NAME_LEN THEN [err |-> "InvalidNameLength"]
        ELSE LET name_bytes == SubSeq(registry.name, 5, 4 + len)
             IN  IF ~from_utf8(name_bytes) THEN [err |-> "InvalidUtf8"]
                 ELSE [err |-> "Ok", name |-> name_bytes]

\* AgentRegistry::get_inbox_url
get_inbox_url(registry) ==
    LET len == from_le_bytes_u32(registry.inbox_url, 0)
    IN  IF len > MAX_INBOX_URL_LEN THEN [err |-> "InvalidInboxUrlLength"]
        ELSE LET url_bytes == SubSeq(registry.inbox_url, 5, 4 + len)
             IN  IF ~from_utf8(url_bytes) THEN [err |-> "InvalidUtf8"]
                 ELSE [err |-> "Ok", inbox_url |-> url_bytes]

(***************************************************************************)
(* utils: account checks.  `meta` is one entry of the caller's account     *)
(* list, [addr, is_signer, is_writable]; `accts` is the ledger.            *)
(***************************************************************************)
\* The first result of the sequence that is not "Ok" (the `?` chain).
RECURSIVE FirstError(_, _)
FirstError(results, i) ==
    IF i > Len(results) THEN "Ok"
    ELSE IF results[i] # "Ok" THEN results[i]
    ELSE FirstError(results, i + 1)

verify_signer(meta) ==
    IF meta.is_signer THEN "Ok" ELSE "MissingRequiredSignature"

verify_writable(meta) ==
    IF meta.is_writable THEN "Ok" ELSE "Immutable"

verify_empty(accts, meta) ==
    IF Len(accts[meta.addr].data) = 0 THEN "Ok" ELSE "AccountAlreadyInitialized"

verify_system_account(accts, meta) ==
    IF accts[meta.addr].owner = SYSTEM_ID THEN "Ok" ELSE "IncorrectProgramId"

verify_system_program(meta) ==
    IF meta.addr # SYSTEM_ID THEN "IncorrectProgramId" ELSE "Ok"

\* Mutant: any address passes for this program's.
verify_current_program_skipped(meta) == "Ok"

verify_current_program(meta) ==
    IF meta.addr # PROGRAM_ID THEN "IncorrectProgramId" ELSE "Ok"

\* Mutant: the emptiness check on the record slot left out.
RegisterAgentAccounts_try_from_no_empty(accts, metas) ==
    IF Len(metas) # 5 THEN "NotEnoughAccountKeys"
    ELSE FirstError(<< verify_signer(metas[1]),
                       verify_writable(metas[1]),
                       verify_signer(metas[2]),
                       verify_writable(metas[3]),
                       verify_system_account(accts, metas[3]),
                       verify_system_program(metas[4]),
                       verify_current_program(metas[5]) >>, 1)

\* Mutant: the slot neither required to be empty nor to be system-owned.
RegisterAgentAccounts_try_from_no_slot_checks(accts, metas) ==
    IF Len(metas) # 5 THEN "NotEnoughAccountKeys"
    ELSE FirstError(<< verify_signer(metas[1]),
                       verify_writable(metas[1]),
                       verify_signer(metas[2]),
                       verify_writable(metas[3]),
                       verify_system_program(metas[4]),
                       verify_current_program(metas[5]) >>, 1)

\* Mutant: the payer's signature looked at before the length of the list.
RegisterAgentAccounts_try_from_payer_first(accts, metas) ==
    IF Len(metas) >= 1 /\ verify_signer(metas[1]) # "Ok"
    THEN "MissingRequiredSignature"
    ELSE IF Len(metas) # 5 THEN "NotEnoughAccountKeys"
    ELSE FirstError(<< verify_writable(metas[1]),
                       verify_signer(metas[2]),
                       verify_writable(metas[3]),
                       verify_empty(accts, metas[3]),
                       verify_system_account(accts, metas[3]),
                       verify_system_program(metas[4]),
                       verify_current_program(metas[5]) >>, 1)

\* Mutant: both signatures checked before the payer's writable flag.
RegisterAgentAccounts_try_from_signers_first(accts, metas) ==
    IF Len(metas) # 5 THEN "NotEnoughAccountKeys"
    ELSE FirstError(<< verify_signer(metas[1]),
                       verify_signer(metas[2]),
                       verify_writable(metas[1]),
                       verify_writable(metas[3]),
                       verify_empty(accts, metas[3]),
                       verify_system_account(accts, metas[3]),
                       verify_system_program(metas[4]),
                       verify_current_program(metas[5]) >>, 1)

\* RegisterAgentAccounts::try_from
RegisterAgentAccounts_try_from(accts, metas) ==
    IF Len(metas) # 5 THEN "NotEnoughAccountKeys"
    ELSE FirstError(<< verify_signer(metas[1]),
                       verify_writable(metas[1]),
                       verify_signer(metas[2]),
                       verify_writable(metas[3]),
                       verify_empty(accts, metas[3]),
                       verify_system_account(accts, metas[3]),
                       verify_system_program(metas[4]),
                       verify_current_program(metas[5]) >>, 1)

\* Mutant: a list longer than three accounts is taken, the first three used.
UpdateAgentAccounts_try_from_at_least(accts, metas) ==
    IF Len(metas) < 3 THEN "NotEnoughAccountKeys"
    ELSE FirstError(<< verify_signer(metas[1]),
                       verify_writable(metas[2]),
                       verify_current_program(metas[3]) >>, 1)

\* UpdateAgentAccounts::try_from
UpdateAgentAccounts_try_from(accts, metas) ==
    IF Len(metas) # 3 THEN "NotEnoughAccountKeys"
    ELSE FirstError(<< verify_signer(metas[1]),
                       verify_writable(metas[2]),
                       verify_current_program(metas[3]) >>, 1)

\* Mutant: the authority's writable flag not checked.
DeregisterAgentAccounts_try_from_no_authority_writable(accts, metas) ==
    IF Len(metas) # 3 THEN "NotEnoughAccountKeys"
    ELSE FirstError(<< verify_signer(metas[1]),
                       verify_writable(metas[2]),
                       verify_current_program(metas[3]) >>, 1)

\* DeregisterAgentAccounts::try_from
DeregisterAgentAccounts_try_from(accts, metas) ==
    IF Len(metas) # 3 THEN "NotEnoughAccountKeys"
    ELSE FirstError(<< verify_signer(metas[1]),
                       verify_writable(metas[1]),
                       verify_writable(metas[2]),
                       verify_current_program(metas[3]) >>, 1)

(***************************************************************************)
(* Payload decoding                                                        *)
(***************************************************************************)
\* Mutant: the payload's length is compared with the name's length prefix
\* before the prefix is compared with the capacity.
ParseStrings_slice_first(data, start) ==
    IF Len(data) < start + 4 THEN [err |-> "InvalidInstructionData"]
    ELSE LET name_len == from_le_bytes_u32(data, start)
             o1 == start + 4
         IN  IF Len(data) - o1 < name_len THEN [err |-> "InvalidInstructionData"]
             ELSE IF name_len > 64 THEN [err |-> "NameTooLong"]
             ELSE LET name == SubSeq(data, o1 + 1, o1 + name_len)
                      o2 == o1 + name_len
                  IN  IF ~from_utf8(name) THEN [err |-> "InvalidUtf8"]
                      ELSE IF Len(data) < o2 + 4 THEN [err |-> "InvalidInstructionData"]
                      ELSE LET url_len == from_le_bytes_u32(data, o2)
                               o3 == o2 + 4
                           IN  IF url_len > 256 THEN [err |-> "InboxUrlTooLong"]
                               ELSE IF Len(data) < o3 + url_len
                                    THEN [err |-> "InvalidInstructionData"]
                               ELSE LET url == SubSeq(data, o3 + 1, o3 + url_len)
                                    IN  IF ~from_utf8(url) THEN [err |-> "InvalidUtf8"]
                                        ELSE [err |-> "Ok", name |-> name,
                                              inbox_url |-> url]

\* The two length-prefixed strings of a payload, read from the 0-based
\* offset `start`: UpdateAgentData::try_from from its first read on.
ParseStrings(data, start) ==
    IF Len(data) < start + 4 THEN [err |-> "InvalidInstructionData"]
    ELSE LET name_len == from_le_bytes_u32(data, start)
             o1 == start + 4
         IN  IF name_len > 64 THEN [err |-> "NameTooLong"]
             ELSE IF Len(data) < o1 + name_len THEN [err |-> "InvalidInstructionData"]
             ELSE LET name == SubSeq(data, o1 + 1, o1 + name_len)
                      o2 == o1 + name_len
                  IN  IF ~from_utf8(name) THEN [err |-> "InvalidUtf8"]
                      ELSE IF Len(data) < o2 + 4 THEN [err |-> "InvalidInstructionData"]
                      ELSE LET url_len == from_le_bytes_u32(data, o2)
                               o3 == o2 + 4
                           IN  IF url_len > 256 THEN [err |-> "InboxUrlTooLong"]
                               ELSE IF Len(data) < o3 + url_len
                                    THEN [err |-> "InvalidInstructionData"]
                               ELSE LET url == SubSeq(data, o3 + 1, o3 + url_len)
                                    IN  IF ~from_utf8(url) THEN [err |-> "InvalidUtf8"]
                                        ELSE [err |-> "Ok", name |-> name,
                                              inbox_url |-> url]

\* How many bytes of the payload UpdateAgentData::try_from has read when it
\* returns: the end of its last data[..] access, along the same path.
ParseReads(data, start) ==
    IF Len(data) < start + 4 THEN start
    ELSE LET name_len == from_le_bytes_u32(data, start)
             o1 == start + 4
         IN  IF name_len > 64 THEN o1
             ELSE IF Len(data) < o1 + name_len THEN o1
             ELSE LET name == SubSeq(data, o1 + 1, o1 + name_len)
                      o2 == o1 + name_len
                  IN  IF ~from_utf8(name) THEN o2
                      ELSE IF Len(data) < o2 + 4 THEN o2
                      ELSE LET url_len == from_le_bytes_u32(data, o2)
                               o3 == o2 + 4
                           IN  IF url_len > 256 THEN o3
                               ELSE IF Len(data) < o3 + url_len THEN o3
                               ELSE o3 + url_len

\* UpdateAgentData::try_from
UpdateAgentData_try_from(data) ==
    IF Len(data) = 0 THEN [err |-> "InvalidInstructionData"]
    ELSE ParseStrings(data, 0)

\* RegisterAgentData::try_from: [bump][name_len][name][url_len][url].
RegisterAgentData_try_from(data) ==
    IF Len(data) = 0 THEN [err |-> "InvalidInstructionData"]
    ELSE LET p == ParseStrings(data, 1)
         IN  IF p.err # "Ok" THEN p
             ELSE [err |-> "Ok", bump |-> data[1], name |-> p.name,
                   inbox_url |-> p.inbox_url]

\* Mutant: a payload behind the tag is refused.
DeregisterAgentData_try_from_strict(data) ==
    IF Len(data) # 0 THEN [err |-> "InvalidInstructionData"] ELSE [err |-> "Ok"]

\* DeregisterAgentData::try_from: any bytes are accepted and ignored.
DeregisterAgentData_try_from(data) == [err |-> "Ok"]

(***************************************************************************)
(* The allocation collaborator and the hosting runtime                     *)
(***************************************************************************)
\* Rent::minimum_balance(space): (128 + space) bytes at 3480 lamports per
\* byte-year, two years.
minimum_balance(space) == (128 + space) * 3480 * 2

\* utils::create_pda_account: the system program creates the slot with
\* `space` zero bytes, funded by the payer and owned by `owner`.
create_pda_account(accts, payer, space, owner, slot) ==
    LET rent == minimum_balance(space)
    IN  IF accts[slot].owner # SYSTEM_ID \/ Len(accts[slot].data) # 0
        THEN [err |-> "AccountAlreadyInUse", accts |-> accts]
        ELSE IF accts[payer].lamports < rent
        THEN [err |-> "InsufficientFunds", accts |-> accts]
        ELSE [err |-> "Ok",
              accts |-> [accts EXCEPT
                  ![payer].lamports = @ - rent,
                  ![slot] = [lamports |-> accts[slot].lamports + rent,
                             owner |-> owner,
                             data |-> Zeros(space)]]]

\* The runtime's verdict on what the program handed back: a failed call
\* leaves no write behind, and so does a call that changed the data of an
\* account this program does not own.
RuntimeCommit(accts, r) ==
    IF r.res # "Ok" THEN [committed |-> FALSE, accts |-> accts]
    ELSE IF \E a \in DOMAIN accts :
                r.accts[a].data # accts[a].data /\ r.accts[a].owner # PROGRAM_ID
         THEN [committed |-> FALSE, accts |-> accts]
         ELSE [committed |-> TRUE, accts |-> r.accts]

(***************************************************************************)
(* Instruction processors.  Each yields the program's result and the       *)
(* ledger as the program left it.                                          *)
(***************************************************************************)
Failed(err, accts) == [res |-> err, accts |-> accts]

\* Mutant: the zero fill starts after the two header bytes.
fill_zero_keep_header(data) == SubSeq(data, 1, 2) \o Zeros(Len(data) - 2)

\* The zero fill of the slot's data (registry_data_slice.fill(0)).
fill_zero(data) == Zeros(Len(data))

\* Mutant: the slot's address is not compared with the derived one.
process_register_agent_no_pda_check(accts, metas, data) ==
    LET a == RegisterAgentAccounts_try_from(accts, metas)
    IN  IF a # "Ok" THEN Failed(a, accts) ELSE
        LET d == RegisterAgentData_try_from(data)
        IN  IF d.err # "Ok" THEN Failed(d.err, accts) ELSE
            LET payer == metas[1].addr
                authority == AddressBytes(metas[2].addr)
                slot == metas[3].addr
                n == AgentRegistry_new(d.bump, authority, d.name, d.inbox_url,
                                       CURRENT_TIMESTAMP)
            IN  IF n.err # "Ok" THEN Failed(n.err, accts)
                ELSE IF validate_authority(n.registry, authority) # "Ok"
                THEN Failed("InvalidAuthority", accts)
                ELSE IF Len(accts[slot].data) # 0
                THEN Failed("RegistryAlreadyExists", accts)
                ELSE LET c == create_pda_account(accts, payer, LEN, PROGRAM_ID, slot)
                     IN  IF c.err # "Ok" THEN Failed(c.err, accts) ELSE
                         LET w == write_to_slice(n.registry, c.accts[slot].data)
                         IN  IF w.err # "Ok" THEN Failed(w.err, c.accts)
                             ELSE [res |-> "Ok",
                                   accts |-> [c.accts EXCEPT ![slot].data = w.data]]

\* process_register_agent.  An error behind create_pda_account would leave
\* the allocation in what the program hands back.
process_register_agent(accts, metas, data) ==
    LET a == RegisterAgentAccounts_try_from(accts, metas)
    IN  IF a # "Ok" THEN Failed(a, accts) ELSE
        LET d == RegisterAgentData_try_from(data)
        IN  IF d.err # "Ok" THEN Failed(d.err, accts) ELSE
            LET payer == metas[1].addr
                authority == AddressBytes(metas[2].addr)
                slot == metas[3].addr
                n == AgentRegistry_new(d.bump, authority, d.name, d.inbox_url,
                                       CURRENT_TIMESTAMP)
            IN  IF n.err # "Ok" THEN Failed(n.err, accts)
                ELSE IF validate_pda(n.registry, slot, d.bump) # "Ok"
                THEN Failed("InvalidSeeds", accts)
                ELSE IF validate_authority(n.registry, authority) # "Ok"
                THEN Failed("InvalidAuthority", accts)
                ELSE IF Len(accts[slot].data) # 0
                THEN Failed("RegistryAlreadyExists", accts)
                ELSE LET c == create_pda_account(accts, payer, LEN, PROGRAM_ID, slot)
                     IN  IF c.err # "Ok" THEN Failed(c.err, accts) ELSE
                         LET w == write_to_slice(n.registry, c.accts[slot].data)
                         IN  IF w.err # "Ok" THEN Failed(w.err, c.accts)
                             ELSE [res |-> "Ok",
                                   accts |-> [c.accts EXCEPT ![slot].data = w.data]]

\* Mutant: the payload decoded before the account list is validated.
process_update_agent_data_first(accts, metas, data) ==
    LET d == UpdateAgentData_try_from(data)
    IN  IF d.err # "Ok" THEN Failed(d.err, accts) ELSE
        LET a == UpdateAgentAccounts_try_from(accts, metas)
        IN  IF a # "Ok" THEN Failed(a, accts) ELSE
            LET authority == AddressBytes(metas[1].addr)
                slot == metas[2].addr
            IN  IF Len(accts[slot].data) # LEN
                THEN Failed("InvalidAccountSize", accts) ELSE
                LET f == from_bytes(accts[slot].data)
                IN  IF f.err # "Ok" THEN Failed("InvalidAccountData", accts)
                    ELSE IF validate_authority(f.registry, authority) # "Ok"
                    THEN Failed("InvalidAuthority", accts) ELSE
                    LET r1 == set_name(f.registry, d.name)
                    IN  IF r1.err # "Ok" THEN Failed(r1.err, accts) ELSE
                        LET r2 == set_inbox_url(r1.registry, d.inbox_url)
                        IN  IF r2.err # "Ok" THEN Failed(r2.err, accts) ELSE
                            LET r3 == touch(r2.registry, CURRENT_TIMESTAMP)
                                w == write_to_slice(r3, accts[slot].data)
                            IN  IF w.err # "Ok" THEN Failed(w.err, accts)
                                ELSE [res |-> "Ok",
                                      accts |-> [accts EXCEPT ![slot].data = w.data]]

\* Mutant: the record decoded before the slot's size is compared.
process_update_agent_decode_first(accts, metas, data) ==
    LET a == UpdateAgentAccounts_try_from(accts, metas)
    IN  IF a # "Ok" THEN Failed(a, accts) ELSE
        LET d == UpdateAgentData_try_from(data)
        IN  IF d.err # "Ok" THEN Failed(d.err, accts) ELSE
            LET authority == AddressBytes(metas[1].addr)
                slot == metas[2].addr
                f == from_bytes(accts[slot].data)
            IN  IF f.err # "Ok" THEN Failed("InvalidAccountData", accts)
                ELSE IF Len(accts[slot].data) # LEN
                THEN Failed("InvalidAccountSize", accts)
                ELSE IF validate_authority(f.registry, authority) # "Ok"
                THEN Failed("InvalidAuthority", accts) ELSE
                LET r1 == set_name(f.registry, d.name)
                IN  IF r1.err # "Ok" THEN Failed(r1.err, accts) ELSE
                    LET r2 == set_inbox_url(r1.registry, d.inbox_url)
                    IN  IF r2.err # "Ok" THEN Failed(r2.err, accts) ELSE
                        LET r3 == touch(r2.registry, CURRENT_TIMESTAMP)
                            w == write_to_slice(r3, accts[slot].data)
                        IN  IF w.err # "Ok" THEN Failed(w.err, accts)
                            ELSE [res |-> "Ok",
                                  accts |-> [accts EXCEPT ![slot].data = w.data]]

\* Mutant: the inbox URL of the payload not stored.
process_update_agent_skip_inbox_url(accts, metas, data) ==
    LET a == UpdateAgentAccounts_try_from(accts, metas)
    IN  IF a # "Ok" THEN Failed(a, accts) ELSE
        LET d == UpdateAgentData_try_from(data)
        IN  IF d.err # "Ok" THEN Failed(d.err, accts) ELSE
            LET authority == AddressBytes(metas[1].addr)
                slot == metas[2].addr
            IN  IF Len(accts[slot].data) # LEN
                THEN Failed("InvalidAccountSize", accts) ELSE
                LET f == from_bytes(accts[slot].data)
                IN  IF f.err # "Ok" THEN Failed("InvalidAccountData", accts)
                    ELSE IF validate_authority(f.registry, authority) # "Ok"
                    THEN Failed("InvalidAuthority", accts) ELSE
                    LET r1 == set_name(f.registry, d.name)
                    IN  IF r1.err # "Ok" THEN Failed(r1.err, accts) ELSE
                        LET r3 == touch(r1.registry, CURRENT_TIMESTAMP)
                            w == write_to_slice(r3, accts[slot].data)
                        IN  IF w.err # "Ok" THEN Failed(w.err, accts)
                            ELSE [res |-> "Ok",
                                  accts |-> [accts EXCEPT ![slot].data = w.data]]

\* Mutant: the size check on the record slot left out.
process_update_agent_no_size_check(accts, metas, data) ==
    LET a == UpdateAgentAccounts_try_from(accts, metas)
    IN  IF a # "Ok" THEN Failed(a, accts) ELSE
        LET d == UpdateAgentData_try_from(data)
        IN  IF d.err # "Ok" THEN Failed(d.err, accts) ELSE
            LET authority == AddressBytes(metas[1].addr)
                slot == metas[2].addr
                f == from_bytes(accts[slot].data)
            IN  IF f.err # "Ok" THEN Failed("InvalidAccountData", accts)
                ELSE IF validate_authority(f.registry, authority) # "Ok"
                THEN Failed("InvalidAuthority", accts) ELSE
                LET r1 == set_name(f.registry, d.name)
                IN  IF r1.err # "Ok" THEN Failed(r1.err, accts) ELSE
                    LET r2 == set_inbox_url(r1.registry, d.inbox_url)
                    IN  IF r2.err # "Ok" THEN Failed(r2.err, accts) ELSE
                        LET r3 == touch(r2.registry, CURRENT_TIMESTAMP)
                            w == write_to_slice(r3, accts[slot].data)
                        IN  IF w.err # "Ok" THEN Failed(w.err, accts)
                            ELSE [res |-> "Ok",
                                  accts |-> [accts EXCEPT ![slot].data = w.data]]

\* process_update_agent
process_update_agent(accts, metas, data) ==
    LET a == UpdateAgentAccounts_try_from(accts, metas)
    IN  IF a # "Ok" THEN Failed(a, accts) ELSE
        LET d == UpdateAgentData_try_from(data)
        IN  IF d.err # "Ok" THEN Failed(d.err, accts) ELSE
            LET authority == AddressBytes(metas[1].addr)
                slot == metas[2].addr
            IN  IF Len(accts[slot].data) # LEN
                THEN Failed("InvalidAccountSize", accts) ELSE
                LET f == from_bytes(accts[slot].data)
                IN  IF f.err # "Ok" THEN Failed("InvalidAccountData", accts)
                    ELSE IF validate_authority(f.registry, authority) # "Ok"
                    THEN Failed("InvalidAuthority", accts) ELSE
                    LET r1 == set_name(f.registry, d.name)
                    IN  IF r1.err # "Ok" THEN Failed(r1.err, accts) ELSE
                        LET r2 == set_inbox_url(r1.registry, d.inbox_url)
                        IN  IF r2.err # "Ok" THEN Failed(r2.err, accts) ELSE
                            LET r3 == touch(r2.registry, CURRENT_TIMESTAMP)
                                w == write_to_slice(r3, accts[slot].data)
                            IN  IF w.err # "Ok" THEN Failed(w.err, accts)
                                ELSE [res |-> "Ok",
                                      accts |-> [accts EXCEPT ![slot].data = w.data]]

\* Mutant: the slot's lamports handed to the authority on closing.
process_deregister_agent_transfers(accts, metas, data) ==
    LET a == DeregisterAgentAccounts_try_from(accts, metas)
    IN  IF a # "Ok" THEN Failed(a, accts) ELSE
        LET d == DeregisterAgentData_try_from(data)
        IN  IF d.err # "Ok" THEN Failed(d.err, accts) ELSE
            LET authority == AddressBytes(metas[1].addr)
                slot == metas[2].addr
            IN  IF Len(accts[slot].data) # LEN
                THEN Failed("InvalidAccountSize", accts) ELSE
                LET f == from_bytes(accts[slot].data)
                IN  IF f.err # "Ok" THEN Failed("InvalidAccountData", accts)
                    ELSE IF validate_authority(f.registry, authority) # "Ok"
                    THEN Failed("InvalidAuthority", accts)
                    ELSE [res |-> "Ok",
                          accts |-> [accts EXCEPT
                                        ![metas[1].addr].lamports =
                                            @ + accts[slot].lamports,
                                        ![slot].lamports = 0,
                                        ![slot].data = fill_zero(accts[slot].data)]]

\* Mutant: the zero fill done before the authority is compared.
process_deregister_agent_fill_first(accts, metas, data) ==
    LET a == DeregisterAgentAccounts_try_from(accts, metas)
    IN  IF a # "Ok" THEN Failed(a, accts) ELSE
        LET d == DeregisterAgentData_try_from(data)
        IN  IF d.err # "Ok" THEN Failed(d.err, accts) ELSE
            LET authority == AddressBytes(metas[1].addr)
                slot == metas[2].addr
                filled == [accts EXCEPT ![slot].data = fill_zero(accts[slot].data)]
            IN  IF Len(accts[slot].data) # LEN
                THEN Failed("InvalidAccountSize", accts) ELSE
                LET f == from_bytes(accts[slot].data)
                IN  IF f.err # "Ok" THEN Failed("InvalidAccountData", filled)
                    ELSE IF validate_authority(f.registry, authority) # "Ok"
                    THEN Failed("InvalidAuthority", filled)
                    ELSE [res |-> "Ok", accts |-> filled]

\* process_deregister_agent
process_deregister_agent(accts, metas, data) ==
    LET a == DeregisterAgentAccounts_try_from(accts, metas)
    IN  IF a # "Ok" THEN Failed(a, accts) ELSE
        LET d == DeregisterAgentData_try_from(data)
        IN  IF d.err # "Ok" THEN Failed(d.err, accts) ELSE
            LET authority == AddressBytes(metas[1].addr)
                slot == metas[2].addr
            IN  IF Len(accts[slot].data) # LEN
                THEN Failed("InvalidAccountSize", accts) ELSE
                LET f == from_bytes(accts[slot].data)
                IN  IF f.err # "Ok" THEN Failed("InvalidAccountData", accts)
                    ELSE IF validate_authority(f.registry, authority) # "Ok"
                    THEN Failed("InvalidAuthority", accts)
                    ELSE [res |-> "Ok",
                          accts |-> [accts EXCEPT
                                        ![slot].data = fill_zero(accts[slot].data)]]

\* AgentMailInstructionDiscriminators
REGISTER_AGENT == 3

UPDATE_AGENT == 4

DEREGISTER_AGENT == 5

\* Mutant: the tags of the demo set, 0, 1 and 2, still routed.
process_instruction_demo_tags(accts, metas, instruction_data) ==
    IF Len(instruction_data) = 0 THEN Failed("InvalidInstructionData", accts)
    ELSE LET discriminator == instruction_data[1]
             rest == Tail(instruction_data)
         IN  IF discriminator \in {0, REGISTER_AGENT}
             THEN process_register_agent(accts, metas, rest)
             ELSE IF discriminator \in {1, UPDATE_AGENT}
             THEN process_update_agent(accts, metas, rest)
             ELSE IF discriminator \in {2, DEREGISTER_AGENT}
             THEN process_deregister_agent(accts, metas, rest)
             ELSE Failed("InvalidInstructionData", accts)

\* entrypoint::process_instruction
process_instruction(accts, metas, instruction_data) ==
    IF Len(instruction_data) = 0 THEN Failed("InvalidInstructionData", accts)
    ELSE LET discriminator == instruction_data[1]
             rest == Tail(instruction_data)
         IN  IF discriminator = REGISTER_AGENT
             THEN process_register_agent(accts, metas, rest)
             ELSE IF discriminator = UPDATE_AGENT
             THEN process_update_agent(accts, metas, rest)
             ELSE IF discriminator = DEREGISTER_AGENT
             THEN process_deregister_agent(accts, metas, rest)
             ELSE Failed("InvalidInstructionData", accts)

(***************************************************************************)
(* Requests, as the client fixtures build them                             *)
(***************************************************************************)
Meta(addr, is_signer, is_writable) ==
    [addr |-> addr, is_signer |-> is_signer, is_writable |-> is_writable]

\* "nix" / "https://n" and "re" / "https://r"
NAME_1 == <<110, 105, 120>>

URL_1 == <<104, 116, 116, 112, 115, 58, 47, 47, 110>>

NAME_2 == <<114, 101>>

URL_2 == <<104, 116, 116, 112, 115, 58, 47, 47, 114>>

StringPairs == { <<NAME_1, URL_1>>, <<NAME_2, URL_2>> }

\* The longest strings the record takes: 64 bytes, and "https://" + 248 bytes.
NAME_64 == [i \in 1..MAX_NAME_LEN |-> 97]

URL_256 == SubSeq(URL_1, 1, 8) \o [i \in 1..(MAX_INBOX_URL_LEN - 8) |-> 97]

\* One byte more than that.
NAME_65 == NAME_64 \o <<97>>

URL_257 == URL_256 \o <<97>>

\* Name / url pairs at the limits and just beyond them, and a short one.
LimitPairs ==
    { <<NAME_1, URL_1>>, <<NAME_64, URL_256>>, <<NAME_65, URL_1>>, <<NAME_1, URL_257>> }

\* Two length-prefixed strings.
EncodeStrings(name, url) ==
    to_le_bytes_u32(Len(name)) \o name \o to_le_bytes_u32(Len(url)) \o url

\* fixtures::register_agent
register_agent_ix(authority, signed, slot, bump, name, url) ==
    [metas |-> << Meta(Payer, TRUE, TRUE), Meta(authority, signed, FALSE),
                  Meta(slot, FALSE, TRUE), Meta(SYSTEM_ID, FALSE, FALSE),
                  Meta(PROGRAM_ID, FALSE, FALSE) >>,
     data |-> <<REGISTER_AGENT, bump>> \o EncodeStrings(name, url)]

\* fixtures::update_agent
update_agent_ix(authority, signed, slot, name, url) ==
    [metas |-> << Meta(authority, signed, FALSE), Meta(slot, FALSE, TRUE),
                  Meta(PROGRAM_ID, FALSE, FALSE) >>,
     data |-> <<UPDATE_AGENT>> \o EncodeStrings(name, url)]

\* fixtures::deregister_agent
deregister_agent_ix(authority, signed, slot) ==
    [metas |-> << Meta(authority, signed, TRUE), Meta(slot, FALSE, TRUE),
                  Meta(PROGRAM_ID, FALSE, FALSE) >>,
     data |-> <<DEREGISTER_AGENT>>]

RegisterRequests ==
    { register_agent_ix(a, sg, s, b, p[1], p[2]) :
        a \in Authorities, sg \in BOOLEAN, s \in Slots, b \in Bumps, p \in StringPairs }

UpdateRequests ==
    { update_agent_ix(a, sg, s, p[1], p[2]) :
        a \in Authorities, sg \in BOOLEAN, s \in Slots, p \in StringPairs }

DeregisterRequests ==
    { deregister_agent_ix(a, sg, s) :
        a \in Authorities, sg \in BOOLEAN, s \in Slots }

\* Requests the dispatcher turns away: no tag byte, or a tag of the demo set.
UnknownRequests ==
    { [metas |-> << Meta("A", TRUE, TRUE), Meta("pda_A_255", FALSE, TRUE),
                    Meta(PROGRAM_ID, FALSE, FALSE) >>,
       data |-> d] : d \in { <<>>, <<0>>, <<228>> } }

\* Where a request names its authority and its record slot.
AuthorityIndex(op) == IF op = "Register" THEN 2 ELSE 1

SlotIndex(op) == IF op = "Register" THEN 3 ELSE 2

(***************************************************************************)
(* The state machine                                                       *)
(***************************************************************************)
\* Lamports the payer starts with: enough to fund two record slots.
PAYER_LAMPORTS == 8000000

\* Lamports each authority's wallet starts with.
AUTHORITY_LAMPORTS == 1000000

Wallet(lamports) == [lamports |-> lamports, owner |-> SYSTEM_ID, data |-> <<>>]

\* What the other program keeps in its slot: bytes that read as a record of
\* authority B.
ForeignData ==
    to_bytes(AgentRegistry_new(254, AddressBytes("B"), NAME_1, URL_1,
                               CURRENT_TIMESTAMP).registry)

InitAccounts ==
    [a \in Addresses |->
        CASE a \in Authorities -> Wallet(AUTHORITY_LAMPORTS)
          [] a = Payer -> Wallet(PAYER_LAMPORTS)
          [] a \in {SYSTEM_ID, PROGRAM_ID} ->
                [lamports |-> 1, owner |-> "native_loader", data |-> <<>>]
          [] a = FOREIGN_SLOT ->
                [lamports |-> minimum_balance(LEN), owner |-> OTHER_PROGRAM,
                 data |-> ForeignData]
          [] a = FOREIGN_SHORT_SLOT ->
                [lamports |-> minimum_balance(3), owner |-> OTHER_PROGRAM,
                 data |-> <<DISCRIMINATOR, VERSION, 255>>]
          [] OTHER -> Wallet(0)]

NoCall ==
    [op |-> "none", res |-> "none", committed |-> FALSE, authority |-> "none",
     signed |-> FALSE, slot |-> "none"]

\* create_test_registry() of the unit tests.
TestRegistry ==
    AgentRegistry_new(255, AddressBytes("A"), NAME_1, URL_1, CURRENT_TIMESTAMP).registry

NoCodecCall == [op |-> "none", err |-> "none", before |-> TestRegistry, arg |-> <<>>]

Init ==
    /\ accounts = InitAccounts
    /\ last = NoCall
    /\ reg = TestRegistry
    /\ reg_call = NoCodecCall

CallRecord(op, ix, res, committed) ==
    [op |-> op, res |-> res, committed |-> committed,
     authority |-> ix.metas[AuthorityIndex(op)].addr,
     signed |-> ix.metas[AuthorityIndex(op)].is_signer,
     slot |-> ix.metas[SlotIndex(op)].addr]

RegisterAgent ==
    \E ix \in RegisterRequests :
        \E r \in {process_instruction(accounts, ix.metas, ix.data)} :
            \E c \in {RuntimeCommit(accounts, r)} :
                /\ accounts' = c.accts
                /\ last' = CallRecord("Register", ix, r.res, c.committed)
                /\ UNCHANGED <<reg, reg_call>>

UpdateAgent ==
    \E ix \in UpdateRequests :
        \E r \in {process_instruction(accounts, ix.metas, ix.data)} :
            \E c \in {RuntimeCommit(accounts, r)} :
                /\ accounts' = c.accts
                /\ last' = CallRecord("Update", ix, r.res, c.committed)
                /\ UNCHANGED <<reg, reg_call>>

DeregisterAgent ==
    \E ix \in DeregisterRequests :
        \E r \in {process_instruction(accounts, ix.metas, ix.data)} :
            \E c \in {RuntimeCommit(accounts, r)} :
                /\ accounts' = c.accts
                /\ last' = CallRecord("Deregister", ix, r.res, c.committed)
                /\ UNCHANGED <<reg, reg_call>>

UnknownInstruction ==
    \E ix \in UnknownRequests :
        \E r \in {process_instruction(accounts, ix.metas, ix.data)} :
            \E c \in {RuntimeCommit(accounts, r)} :
                /\ accounts' = c.accts
                /\ last' = CallRecord("Unknown", ix, r.res, c.committed)
                /\ UNCHANGED <<reg, reg_call>>

Next == RegisterAgent \/ UpdateAgent \/ DeregisterAgent \/ UnknownInstruction

Spec == Init /\ [][Next]_vars

(***************************************************************************)
(* The same program driven with strings at the length limits, by signed    *)
(* callers, on the canonical slot of each authority and on a slot of the   *)
(* wrong size.                                                             *)
(***************************************************************************)
LimitSlots == {"pda_A_255", "pda_B_254", FOREIGN_SHORT_SLOT}

LimitRegisterRequests ==
    { register_agent_ix(a, TRUE, s, b, p[1], p[2]) :
        a \in Authorities, s \in LimitSlots, b \in Bumps, p \in LimitPairs }

LimitUpdateRequests ==
    { update_agent_ix(a, TRUE, s, p[1], p[2]) :
        a \in Authorities, s \in LimitSlots, p \in LimitPairs }

LimitDeregisterRequests ==
    { deregister_agent_ix(a, TRUE, s) : a \in Authorities, s \in LimitSlots }

RegisterAtLimits ==
    \E ix \in LimitRegisterRequests :
        \E r \in {process_instruction(accounts, ix.metas, ix.data)} :
            \E c \in {RuntimeCommit(accounts, r)} :
                /\ accounts' = c.accts
                /\ last' = CallRecord("Register", ix, r.res, c.committed)
                /\ UNCHANGED <<reg, reg_call>>

UpdateAtLimits ==
    \E ix \in LimitUpdateRequests :
        \E r \in {process_instruction(accounts, ix.metas, ix.data)} :
            \E c \in {RuntimeCommit(accounts, r)} :
                /\ accounts' = c.accts
                /\ last' = CallRecord("Update", ix, r.res, c.committed)
                /\ UNCHANGED <<reg, reg_call>>

DeregisterAtLimits ==
    \E ix \in LimitDeregisterRequests :
        \E r \in {process_instruction(accounts, ix.metas, ix.data)} :
            \E c \in {RuntimeCommit(accounts, r)} :
                /\ accounts' = c.accts
                /\ last' = CallRecord("Deregister", ix, r.res, c.committed)
                /\ UNCHANGED <<reg, reg_call>>

LimitNext == RegisterAtLimits \/ UpdateAtLimits \/ DeregisterAtLimits

LimitSpec == Init /\ [][LimitNext]_vars

(***************************************************************************)
(* The AgentRegistry struct driven on its own.                             *)
(***************************************************************************)
\* The strings handed to set_name and set_inbox_url.
CodecNames == { <<>>, NAME_1, NAME_64, NAME_65 }

CodecUrls == { URL_1, URL_256, URL_257 }

\* The times handed to touch: the creation time, and the later one of
\* test_agent_registry_update_fields.
CodecTimestamps == { CURRENT_TIMESTAMP, CURRENT_TIMESTAMP + 100 }

CodecInit ==
    /\ accounts = InitAccounts
    /\ last = NoCall
    /\ reg \in { AgentRegistry_new(b, AddressBytes(a), NAME_1, URL_1,
                                    CURRENT_TIMESTAMP).registry :
                    b \in Bumps, a \in Authorities }
    /\ reg_call = [NoCodecCall EXCEPT !.before = reg]

CodecCall(op, err, arg) == [op |-> op, err |-> err, before |-> reg, arg |-> arg]

SetName ==
    \E name \in CodecNames :
        \E r \in {set_name(reg, name)} :
            /\ reg' = r.registry
            /\ reg_call' = CodecCall("set_name", r.err, name)
            /\ UNCHANGED <<accounts, last>>

SetInboxUrl ==
    \E inbox_url \in CodecUrls :
        \E r \in {set_inbox_url(reg, inbox_url)} :
            /\ reg' = r.registry
            /\ reg_call' = CodecCall("set_inbox_url", r.err, inbox_url)
            /\ UNCHANGED <<accounts, last>>

Touch ==
    \E timestamp \in CodecTimestamps :
        /\ reg' = touch(reg, timestamp)
        /\ reg_call' = CodecCall("touch", "Ok", to_le_bytes_i64(timestamp))
        /\ UNCHANGED <<accounts, last>>

\* to_bytes, then from_bytes of the result (test_agent_registry_from_bytes).
RoundTrip ==
    \E bytes \in {to_bytes(reg)} :
        \E f \in {from_bytes(bytes)} :
            /\ reg' = IF f.err = "Ok" THEN f.registry ELSE reg
            /\ reg_call' = CodecCall("from_bytes", f.err, bytes)
            /\ UNCHANGED <<accounts, last>>

\* `bytes` with the four bytes from the 0-based offset `off` on replaced
\* by the little-endian encoding of `n`.
WithPrefix(bytes, off, n) ==
    SubSeq(bytes, 1, off) \o to_le_bytes_u32(n) \o SubSeq(bytes, off + 5, Len(bytes))

\* Where the two length prefixes lie in the L stored bytes (0-based).
NAME_OFFSET == 2 + 2 + 6 + 32

INBOX_URL_OFFSET == NAME_OFFSET + NAME_FIELD_LEN

\* L stored bytes as an account may hold them: the record's own image, and
\* images whose name or inbox length prefix is beyond the field's capacity.
StoredImages(registry) ==
    { to_bytes(registry),
      WithPrefix(to_bytes(registry), NAME_OFFSET, MAX_NAME_LEN + 1),
      WithPrefix(to_bytes(registry), INBOX_URL_OFFSET, MAX_INBOX_URL_LEN + 1) }

\* from_bytes of stored bytes, as the handlers decode a slot, and then the
\* two getters on the record it yields, as a reader of the strings does.
DecodeStored ==
    \E bytes \in StoredImages(reg) :
        \E f \in {from_bytes(bytes)} :
            /\ reg' = reg
            /\ reg_call' = [op |-> "decode", err |-> f.err, before |-> reg,
                            arg |-> bytes,
                            get_name |-> IF f.err = "Ok"
                                         THEN get_name(f.registry).err ELSE f.err,
                            get_inbox_url |-> IF f.err = "Ok"
                                              THEN get_inbox_url(f.registry).err
                                              ELSE f.err]
            /\ UNCHANGED <<accounts, last>>

CodecNext == SetName \/ SetInboxUrl \/ Touch \/ RoundTrip \/ DecodeStored

CodecSpec == CodecInit /\ [][CodecNext]_vars

(***************************************************************************)
(* The same program driven with requests that deviate from what the        *)
(* fixtures build: role flags dropped, fixed addresses replaced, account   *)
(* lists cut short, unknown tags, trailing payload bytes, an empty name    *)
(* and an inbox URL that is not https.  One authority, its canonical slot  *)
(* and the slot of the other program.                                      *)
(***************************************************************************)
\* "http://i"
URL_HTTP == <<104, 116, 116, 112, 58, 47, 47, 105>>

\* The well-formed request of each operation (build_valid).
ValidRegister == register_agent_ix("A", TRUE, "pda_A_255", 255, NAME_1, URL_1)

ValidUpdate == update_agent_ix("A", TRUE, "pda_A_255", NAME_1, URL_1)

ValidDeregister == deregister_agent_ix("A", TRUE, "pda_A_255")

\* Register with every combination of the role flags and of the two fixed
\* addresses.
RegisterVariants ==
    { [metas |-> << Meta(Payer, ps, pw), Meta("A", sg, FALSE),
                    Meta("pda_A_255", FALSE, sw), Meta(sys, FALSE, FALSE),
                    Meta(prog, FALSE, FALSE) >>,
       data |-> ValidRegister.data] :
        ps \in BOOLEAN, pw \in BOOLEAN, sg \in BOOLEAN, sw \in BOOLEAN,
        sys \in {SYSTEM_ID, OTHER_PROGRAM}, prog \in {PROGRAM_ID, OTHER_PROGRAM} }

UpdateVariants ==
    { [metas |-> << Meta("A", sg, FALSE), Meta(s, FALSE, sw),
                    Meta(prog, FALSE, FALSE) >>,
       data |-> ValidUpdate.data] :
        sg \in BOOLEAN, sw \in BOOLEAN, s \in {"pda_A_255", FOREIGN_SLOT},
        prog \in {PROGRAM_ID, OTHER_PROGRAM} }

\* The payloads sent behind the Deregister tag: none, one byte, a few.
DeregisterPayloads == { <<>>, <<0>>, <<1, 2, 3>> }

DeregisterVariants ==
    { [metas |-> << Meta("A", sg, aw), Meta(s, FALSE, sw),
                    Meta(prog, FALSE, FALSE) >>,
       data |-> <<DEREGISTER_AGENT>> \o d] :
        sg \in BOOLEAN, aw \in BOOLEAN, sw \in BOOLEAN,
        s \in {"pda_A_255", FOREIGN_SLOT}, prog \in {PROGRAM_ID, OTHER_PROGRAM},
        d \in DeregisterPayloads }

\* The requests of `ixs` with the account list cut to fewer than `arity`
\* entries, with the payload kept and with the tag alone.
ShortLists(ixs, arity) ==
    { [metas |-> SubSeq(ix.metas, 1, n),
       data |-> IF whole THEN ix.data ELSE <<ix.data[1]>>] :
        ix \in ixs, n \in 0..(arity - 1), whole \in BOOLEAN }

\* The request with one account more than the operation names.
LongList(ix) == [ix EXCEPT !.metas = @ \o << Meta(Payer, FALSE, FALSE) >>]

\* The name / url pairs of the validation tests: an empty name, an http URL.
InvalidPairs == { << <<>>, URL_1 >>, << NAME_1, URL_HTTP >> }

MalformedRegisterRequests ==
    RegisterVariants
        \cup { register_agent_ix("A", TRUE, FOREIGN_SLOT, 255, NAME_1, URL_1) }
        \cup { register_agent_ix("A", TRUE, "pda_A_255", 255, p[1], p[2]) :
                    p \in InvalidPairs }
        \cup ShortLists({ValidRegister, [ValidRegister EXCEPT !.metas[1].is_signer = FALSE]}, 5)
        \cup { LongList(ValidRegister) }

\* Update payloads the decoder refuses: no bytes, a length prefix cut short,
\* a name of 65 bytes and one that is not UTF-8.
InvalidUpdatePayloads ==
    { <<>>, <<3, 0>>, EncodeStrings(NAME_65, URL_1),
      EncodeStrings(<<255, 254, 253, 252>>, URL_1) }

\* Requests with a flaw in the account list and a refused payload at once.
FlawedUpdates ==
    { [ValidUpdate EXCEPT !.metas[1].is_signer = FALSE],
      [ValidUpdate EXCEPT !.metas[2].is_writable = FALSE],
      [ValidUpdate EXCEPT !.metas[3].addr = OTHER_PROGRAM] }

MalformedUpdateRequests ==
    UpdateVariants
        \cup { update_agent_ix("A", TRUE, "pda_A_255", p[1], p[2]) : p \in InvalidPairs }
        \cup { [ix EXCEPT !.data = <<UPDATE_AGENT>> \o d] :
                    ix \in FlawedUpdates \cup {ValidUpdate}, d \in InvalidUpdatePayloads }
        \cup ShortLists({ValidUpdate, [ValidUpdate EXCEPT !.metas[1].is_signer = FALSE]}, 3)
        \cup { LongList(ValidUpdate) }

MalformedDeregisterRequests ==
    DeregisterVariants
        \cup ShortLists({ValidDeregister,
                         [ValidDeregister EXCEPT !.metas[1].is_signer = FALSE]}, 3)
        \cup { LongList(ValidDeregister) }

\* Tags the dispatcher does not know: those of the demo set (0, 1, 2, 228),
\* the one after Deregister and the largest; alone and with an Update's
\* payload behind them; and no bytes at all.
UnknownTags == {0, 1, 2, 6, 228, 255}

UnknownTagRequests ==
    { [ValidUpdate EXCEPT !.data = <<>>] }
        \cup { [ValidUpdate EXCEPT !.data = <<t>> \o d] :
                    t \in UnknownTags, d \in {<<>>, Tail(ValidUpdate.data)} }

\* What is kept of a call: as CallRecord, and the request itself.
RequestRecord(op, ix, res, committed) ==
    LET authority == AuthorityIndex(op)
        slot == SlotIndex(op)
    IN  [op |-> op, res |-> res, committed |-> committed,
         authority |-> IF Len(ix.metas) >= authority
                       THEN ix.metas[authority].addr ELSE "none",
         signed |-> IF Len(ix.metas) >= authority
                    THEN ix.metas[authority].is_signer ELSE FALSE,
         slot |-> IF Len(ix.metas) >= slot THEN ix.metas[slot].addr ELSE "none",
         metas |-> ix.metas,
         data |-> ix.data]

RegisterMalformed ==
    \E ix \in MalformedRegisterRequests :
        \E r \in {process_instruction(accounts, ix.metas, ix.data)} :
            \E c \in {RuntimeCommit(accounts, r)} :
                /\ accounts' = c.accts
                /\ last' = RequestRecord("Register", ix, r.res, c.committed)
                /\ UNCHANGED <<reg, reg_call>>

UpdateMalformed ==
    \E ix \in MalformedUpdateRequests :
        \E r \in {process_instruction(accounts, ix.metas, ix.data)} :
            \E c \in {RuntimeCommit(accounts, r)} :
                /\ accounts' = c.accts
                /\ last' = RequestRecord("Update", ix, r.res, c.committed)
                /\ UNCHANGED <<reg, reg_call>>

DeregisterMalformed ==
    \E ix \in MalformedDeregisterRequests :
        \E r \in {process_instruction(accounts, ix.metas, ix.data)} :
            \E c \in {RuntimeCommit(accounts, r)} :
                /\ accounts' = c.accts
                /\ last' = RequestRecord("Deregister", ix, r.res, c.committed)
                /\ UNCHANGED <<reg, reg_call>>

UnknownTag ==
    \E ix \in UnknownTagRequests :
        \E r \in {process_instruction(accounts, ix.metas, ix.data)} :
            \E c \in {RuntimeCommit(accounts, r)} :
                /\ accounts' = c.accts
                /\ last' = RequestRecord("Unknown", ix, r.res, c.committed)
                /\ UNCHANGED <<reg, reg_call>>

MalformedNext ==
    RegisterMalformed \/ UpdateMalformed \/ DeregisterMalformed \/ UnknownTag

MalformedSpec == Init /\ [][MalformedNext]_vars

(***************************************************************************)
(* The Update payload decoder driven on its own, with payloads as the unit *)
(* tests of update_agent/data.rs build them and with cut and overstated    *)
(* ones.                                                                   *)
(***************************************************************************)
\* [0xFF, 0xFE, 0xFD, 0xFC] of test_update_agent_data_invalid_utf8, and a
\* two-byte character without its second byte.
BadUtf8Strings == { <<255, 254, 253, 252>>, <<110, 195>> }

\* Strings that are UTF-8: none, ASCII, a two-byte character, and the
\* longest ones.
GoodNames == { <<>>, NAME_1, <<195, 169>>, NAME_64 }

GoodUrls == { <<>>, URL_1, <<116, 101, 115, 116>>, URL_256 }

PayloadNames == GoodNames \cup BadUtf8Strings \cup {NAME_65}

PayloadUrls == GoodUrls \cup BadUtf8Strings \cup {URL_257}

\* create_test_data(name, url)
EncodedPayloads == { EncodeStrings(n, u) : n \in PayloadNames, u \in PayloadUrls }

\* Where the encoded payloads are cut: nothing left, inside the first
\* prefix, behind it, inside the name, and one and four bytes before the end.
CutPayloads ==
    { SubSeq(p, 1, k) : p \in EncodedPayloads, k \in {0, 1, 3, 4, 5, 7} }
        \cup { SubSeq(p, 1, Len(p) - k) : p \in EncodedPayloads, k \in {1, 4} }

\* Length prefixes beyond the capacity with fewer bytes behind them than
\* they announce: 65, 1000 and 0xFFFFFFFF for the name, 257 and 0xFFFFFFFF
\* for the url.
OverstatedNamePayloads ==
    { pre \o body :
        pre \in { to_le_bytes_u32(MAX_NAME_LEN + 1), to_le_bytes_u32(1000),
                  <<255, 255, 255, 255>> },
        body \in { <<>>, NAME_1, NAME_64 } }

OverstatedUrlPayloads ==
    { to_le_bytes_u32(Len(NAME_1)) \o NAME_1 \o pre \o body :
        pre \in { to_le_bytes_u32(MAX_INBOX_URL_LEN + 1), <<255, 255, 255, 255>> },
        body \in { <<>>, URL_1 } }

Payloads ==
    EncodedPayloads \cup CutPayloads \cup OverstatedNamePayloads
        \cup OverstatedUrlPayloads

\* UpdateAgentData::try_from on one payload.
DecodePayload ==
    \E data \in Payloads :
        \E d \in {UpdateAgentData_try_from(data)} :
            /\ reg_call' = [op |-> "try_from", err |-> d.err, before |-> reg,
                            arg |-> data,
                            name |-> IF d.err = "Ok" THEN d.name ELSE <<>>,
                            inbox_url |-> IF d.err = "Ok" THEN d.inbox_url ELSE <<>>,
                            read |-> IF Len(data) = 0 THEN 0 ELSE ParseReads(data, 0)]
            /\ UNCHANGED <<accounts, last, reg>>

PayloadNext == DecodePayload

PayloadSpec == Init /\ [][PayloadNext]_vars

(***************************************************************************)
(* Requests submitted at once on one record slot.  The hosting runtime     *)
(* runs requests that name the same account as writable one at a time, in  *)
(* an order of its choosing, each to its end and to its commit or          *)
(* rollback; the program keeps nothing between calls.  `last` holds the    *)
(* batch: what is still to run, what has run with its answer, and the      *)
(* accounts as they were when the batch was submitted.                     *)
(***************************************************************************)
\* The most requests submitted at once.
MaxBatch == 3

\* Calls on the slot of authority A: two Registers and two Updates with
\* different strings, the other authority's Update and a Deregister.
ConcurrentRequests ==
    { register_agent_ix("A", TRUE, "pda_A_255", 255, p[1], p[2]) : p \in StringPairs }
        \cup { update_agent_ix("A", TRUE, "pda_A_255", p[1], p[2]) : p \in StringPairs }
        \cup { update_agent_ix("B", TRUE, "pda_A_255", NAME_2, URL_1),
               deregister_agent_ix("A", TRUE, "pda_A_255") }

Batches ==
    { b \in SUBSET ConcurrentRequests : Cardinality(b) \in 2..MaxBatch }

NoBatch == [pending |-> {}, done |-> <<>>, start |-> InitAccounts]

ConcurrentInit ==
    /\ accounts = InitAccounts
    /\ last = NoBatch
    /\ reg = TestRegistry
    /\ reg_call = NoCodecCall

\* A batch is submitted once the one before it has run.
SubmitBatch ==
    /\ last.pending = {}
    /\ \E b \in Batches :
            last' = [pending |-> b, done |-> <<>>, start |-> accounts]
    /\ UNCHANGED <<accounts, reg, reg_call>>

\* The runtime picks one of the pending requests and runs it alone.
ExecutePending ==
    \E ix \in last.pending :
        \E r \in {process_instruction(accounts, ix.metas, ix.data)} :
            \E c \in {RuntimeCommit(accounts, r)} :
                /\ accounts' = c.accts
                /\ last' = [last EXCEPT !.pending = @ \ {ix},
                                        !.done = Append(@, [ix |-> ix, res |-> r.res])]
                /\ UNCHANGED <<reg, reg_call>>

ConcurrentNext == SubmitBatch \/ ExecutePending

ConcurrentSpec == ConcurrentInit /\ [][ConcurrentNext]_vars

\* The accounts after the requests of `order` were processed one after
\* another, each committed or rolled back before the next.
RECURSIVE RunInOrder(_, _)
RunInOrder(accts, order) ==
    IF order = <<>> THEN accts
    ELSE RunInOrder(
            RuntimeCommit(accts, process_instruction(accts, Head(order).metas,
                                                     Head(order).data)).accts,
            Tail(order))

\* The orders in which the requests of a batch can be processed.
Orders(b) ==
    { o \in [1..Cardinality(b) -> b] :
        \A i \in DOMAIN o : \A j \in DOMAIN o : i # j => o[i] # o[j] }

(***************************************************************************)
(* Vocabulary of the properties                                            *)
(***************************************************************************)
\* The slot holds a record of this program: REGISTERED.
Registered(accts, s) ==
    accts[s].owner = PROGRAM_ID /\ from_bytes(accts[s].data).err = "Ok"

\* The record the slot's bytes decode to.
StoredRegistry(accts, s) == from_bytes(accts[s].data).registry

\* The slot of this program is L zero bytes: a record was closed here.
ZeroFilled(accts, s) ==
    /\ accts[s].owner = PROGRAM_ID
    /\ Len(accts[s].data) = LEN
    /\ AllZero(accts[s].data)

\* The slot does not exist: ABSENT, as Register requires it.
Absent(accts, s) == Len(accts[s].data) = 0 /\ accts[s].owner = SYSTEM_ID

\* The string a 4-byte-prefixed field holds.
FieldString(field) == SubSeq(field, 5, 4 + from_le_bytes_u32(field, 0))

LastSucceeded(op) == last.op = op /\ last.res = "Ok" /\ last.committed

\* The program's answer to a request in the current state.
Answer(ix) == process_instruction(accounts, ix.metas, ix.data)

AlreadyExistsErrors == {"AccountAlreadyInitialized", "RegistryAlreadyExists"}

(***************************************************************************)
(* C1: after a successful Register and a successful Deregister, a Register *)
(* with the same authority, bump and slot address and any name/url         *)
(* succeeds, and the slot then holds the new record.                       *)
(* Stated for the state right after the successful Deregister.             *)
(***************************************************************************)
C1_ReRegisterSucceeds ==
    LastSucceeded("Deregister") =>
        \A b \in Bumps, p \in StringPairs :
            create_program_address(last.authority, b) = last.slot =>
                LET r == Answer(register_agent_ix(last.authority, TRUE, last.slot,
                                                  b, p[1], p[2]))
                IN  /\ r.res = "Ok"
                    /\ Registered(r.accts, last.slot)
                    /\ FieldString(StoredRegistry(r.accts, last.slot).name) = p[1]
                    /\ FieldString(StoredRegistry(r.accts, last.slot).inbox_url) = p[2]

(***************************************************************************)
(* C2: in every reachable state no two distinct record slots hold records  *)
(* with the same stored authority.                                         *)
(***************************************************************************)
C2_OneRecordPerOwner ==
    \A s1, s2 \in Slots :
        (s1 # s2 /\ Registered(accounts, s1) /\ Registered(accounts, s2)) =>
            StoredRegistry(accounts, s1).authority
                # StoredRegistry(accounts, s2).authority

(***************************************************************************)
(* C3: a REGISTERED record changes only in a step that is a successful     *)
(* Update or Deregister on that slot whose signing authority's key is the  *)
(* record's stored authority.                                              *)
(***************************************************************************)
C3_OnlyOwnerMutates ==
    [][ \A s \in Slots :
          (Registered(accounts, s) /\ accounts'[s] # accounts[s]) =>
              /\ last'.op \in {"Update", "Deregister"}
              /\ last'.res = "Ok" /\ last'.committed
              /\ last'.slot = s
              /\ last'.signed
              /\ AddressBytes(last'.authority)
                    = StoredRegistry(accounts, s).authority ]_vars

\* An owner's Update has rewritten a record to the second name.
C3_Witness ==
    /\ LastSucceeded("Update")
    /\ Registered(accounts, last.slot)
    /\ FieldString(StoredRegistry(accounts, last.slot).name) = NAME_2

(***************************************************************************)
(* C4: where a slot's bytes decode to a record with authority A, an Update *)
(* or Deregister whose authority account is a signer B # A fails with      *)
(* InvalidAuthority and changes nothing.                                   *)
(***************************************************************************)
C4_WrongAuthorityRejected ==
    \A s \in Slots, b \in Authorities :
        (/\ from_bytes(accounts[s].data).err = "Ok"
         /\ StoredRegistry(accounts, s).authority # AddressBytes(b)) =>
            \A ix \in { update_agent_ix(b, TRUE, s, p[1], p[2]) : p \in StringPairs }
                        \cup { deregister_agent_ix(b, TRUE, s) } :
                /\ Answer(ix).res = "InvalidAuthority"
                /\ Answer(ix).accts = accounts

\* A signed call by the wrong authority on a registered slot was turned away.
C4_Witness ==
    /\ last.op \in {"Update", "Deregister"}
    /\ last.res = "InvalidAuthority"
    /\ last.signed
    /\ Registered(accounts, last.slot)
    /\ StoredRegistry(accounts, last.slot).authority # AddressBytes(last.authority)

(***************************************************************************)
(* C5: a Register on a REGISTERED slot fails and leaves everything as it   *)
(* was, and with the request otherwise in order the error is the           *)
(* already-exists one; so no Register succeeds on a slot while it is       *)
(* REGISTERED.                                                             *)
(***************************************************************************)
C5_RegisterOnRegisteredFails ==
    [][ (last'.op = "Register" /\ Registered(accounts, last'.slot)) =>
            /\ last'.res # "Ok"
            /\ accounts' = accounts
            /\ (last'.signed => last'.res \in AlreadyExistsErrors) ]_vars

\* A second Register on a registered slot met the already-exists error.
C5_Witness ==
    /\ last.op = "Register"
    /\ last.res \in AlreadyExistsErrors
    /\ Registered(accounts, last.slot)

(***************************************************************************)
(* C6: Update and Deregister reject a slot whose address is not the one    *)
(* derived from the prefix, the stored authority and the stored bump.      *)
(***************************************************************************)
\* The bytes decode to a record, but the slot is not at that record's address.
WronglyDerived(accts, s) ==
    /\ from_bytes(accts[s].data).err = "Ok"
    /\ validate_pda(StoredRegistry(accts, s), s, StoredRegistry(accts, s).bump) # "Ok"

C6_WronglyDerivedRejected ==
    (last.op \in {"Update", "Deregister"} /\ last.res = "Ok") =>
        ~WronglyDerived(accounts, last.slot)

(***************************************************************************)
(* C7: a successful Deregister zero-fills the slot and moves its balance   *)
(* to the authority, whose balance grows.                                  *)
(***************************************************************************)
C7_CloseReclaimsBalance ==
    [][ (last'.op = "Deregister" /\ last'.res = "Ok" /\ last'.committed) =>
            /\ AllZero(accounts'[last'.slot].data)
            /\ accounts'[last'.slot].lamports = 0
            /\ accounts'[last'.authority].lamports
                    > accounts[last'.authority].lamports ]_vars

(***************************************************************************)
(* C8: after a successful Deregister every byte of the slot's L-byte       *)
(* region is zero.                                                         *)
(***************************************************************************)
C8_CloseZeroFills ==
    LastSucceeded("Deregister") =>
        /\ Len(accounts[last.slot].data) = LEN
        /\ AllZero(accounts[last.slot].data)

\* A record slot has just been closed by its owner.
C8_Witness ==
    /\ LastSucceeded("Deregister")
    /\ accounts[last.slot].owner = PROGRAM_ID
    /\ accounts[last.slot].lamports > 0

(***************************************************************************)
(* C9: after a successful Deregister the slot no longer exists: no data,   *)
(* the ABSENT state Register requires.                                     *)
(***************************************************************************)
C9_CloseRemovesAccount ==
    LastSucceeded("Deregister") => Absent(accounts, last.slot)

(***************************************************************************)
(* C10: L zero bytes never decode as a record; on a closed slot every      *)
(* Update and Deregister fails at the decoding step and leaves the slot    *)
(* all zero.                                                               *)
(***************************************************************************)
\* The slot was closed: it is zero-filled, or a Deregister on it has just
\* succeeded.
Closed(s) ==
    ZeroFilled(accounts, s) \/ (LastSucceeded("Deregister") /\ last.slot = s)

C10_ZeroBufferNeverDecodes ==
    /\ from_bytes(Zeros(LEN)).err # "Ok"
    /\ \A ix \in UpdateRequests \cup DeregisterRequests :
          Closed(ix.metas[2].addr) =>
              /\ Answer(ix).res # "Ok"
              /\ Answer(ix).accts = accounts
              /\ AllZero(Answer(ix).accts[ix.metas[2].addr].data)
              /\ (ix.metas[1].is_signer => Answer(ix).res = "InvalidAccountData")

\* An Update or Deregister on a closed slot failed at the decoding step.
C10_Witness ==
    /\ last.op \in {"Update", "Deregister"}
    /\ last.res = "InvalidAccountData"
    /\ ZeroFilled(accounts, last.slot)

(***************************************************************************)
(* C11: a Register by a signing authority on an ABSENT slot at the address *)
(* derived from the authority and the supplied bump, with the payer able   *)
(* to fund it, succeeds; and every successful Register leaves in the slot  *)
(* a record with the supplied bump, version 1, the authority's key, the    *)
(* supplied name and inbox url, and created_at = updated_at = now.         *)
(***************************************************************************)
C11_RegisterStoresRecord ==
    \A a \in Authorities, s \in Slots, b \in Bumps, p \in StringPairs :
        LET r == Answer(register_agent_ix(a, TRUE, s, b, p[1], p[2]))
            g == StoredRegistry(r.accts, s)
        IN  /\ (/\ Absent(accounts, s)
                /\ create_program_address(a, b) = s
                /\ accounts[Payer].lamports >= minimum_balance(LEN)) => r.res = "Ok"
            /\ r.res = "Ok" =>
                  /\ Registered(r.accts, s)
                  /\ g.bump = b
                  /\ g.version = 1
                  /\ g.authority = AddressBytes(a)
                  /\ FieldString(g.name) = p[1]
                  /\ FieldString(g.inbox_url) = p[2]
                  /\ g.created_at = to_le_bytes_i64(CURRENT_TIMESTAMP)
                  /\ g.updated_at = g.created_at

\* A Register has just created a record stamped with the current time.
C11_Witness ==
    /\ LastSucceeded("Register")
    /\ Registered(accounts, last.slot)
    /\ StoredRegistry(accounts, last.slot).authority = AddressBytes(last.authority)
    /\ StoredRegistry(accounts, last.slot).updated_at = to_le_bytes_i64(CURRENT_TIMESTAMP)

(***************************************************************************)
(* C12: after a successful Update of a registered record its updated_at is *)
(* strictly greater than its created_at.                                   *)
(***************************************************************************)
C12_UpdatedAfterCreated ==
    (LastSucceeded("Update") /\ Registered(accounts, last.slot)) =>
        i64_lt(StoredRegistry(accounts, last.slot).created_at,
               StoredRegistry(accounts, last.slot).updated_at)

(***************************************************************************)
(* C13: a successful Update leaves the stored bump, version, padding,      *)
(* authority and created_at of the record as they were.                    *)
(***************************************************************************)
C13_UpdatePreservesIdentity ==
    [][ (last'.op = "Update" /\ last'.res = "Ok" /\ last'.committed) =>
            /\ from_bytes(accounts[last'.slot].data).err = "Ok"
            /\ from_bytes(accounts'[last'.slot].data).err = "Ok"
            /\ LET o == StoredRegistry(accounts, last'.slot)
                   n == StoredRegistry(accounts', last'.slot)
               IN  /\ n.bump = o.bump
                   /\ n.version = o.version
                   /\ n.padding = o.padding
                   /\ n.authority = o.authority
                   /\ n.created_at = o.created_at ]_vars

\* An Update has rewritten both strings of the record on the bump-254 slot
\* of authority A.
C13_Witness ==
    /\ LastSucceeded("Update")
    /\ last.slot = "pda_A_254"
    /\ StoredRegistry(accounts, last.slot).bump = 254
    /\ FieldString(StoredRegistry(accounts, last.slot).inbox_url) = URL_2

(***************************************************************************)
(* C14: every REGISTERED record has created_at <= updated_at.              *)
(***************************************************************************)
C14_CreatedNotAfterUpdated ==
    \A s \in Slots :
        Registered(accounts, s) =>
            ~i64_lt(StoredRegistry(accounts, s).updated_at,
                    StoredRegistry(accounts, s).created_at)

\* A record that has been updated, and another that has only been created.
C14_Witness ==
    /\ LastSucceeded("Update")
    /\ Registered(accounts, last.slot)
    /\ \E s \in Slots \ {last.slot} : Registered(accounts, s)

(***************************************************************************)
(* C15: every REGISTERED record's stored name length prefix is at most 64  *)
(* and its inbox url length prefix at most 256, whatever calls, accepted   *)
(* or rejected, came before.                                               *)
(***************************************************************************)
C15_StoredLengthsWithinLimits ==
    \A s \in Slots \cup LimitSlots :
        Registered(accounts, s) =>
            /\ from_le_bytes_u32(StoredRegistry(accounts, s).name, 0) <= 64
            /\ from_le_bytes_u32(StoredRegistry(accounts, s).inbox_url, 0) <= 256

\* A record holding strings of the full 64 and 256 bytes has just turned
\* away a call with a string one byte longer.
C15_Witness ==
    /\ last.op \in {"Register", "Update"}
    /\ last.res \in {"NameTooLong", "InboxUrlTooLong"}
    /\ Registered(accounts, last.slot)
    /\ from_le_bytes_u32(StoredRegistry(accounts, last.slot).name, 0) = 64
    /\ from_le_bytes_u32(StoredRegistry(accounts, last.slot).inbox_url, 0) = 256

(***************************************************************************)
(* C16: set_name with more than 64 bytes fails with NameTooLong and        *)
(* set_inbox_url with more than 256 bytes fails with InboxUrlTooLong, and  *)
(* the record is then exactly as it was before the call.                   *)
(***************************************************************************)
C16_TooLongRejectedUnchanged ==
    /\ (reg_call.op = "set_name" /\ Len(reg_call.arg) > 64) =>
            (reg_call.err = "NameTooLong" /\ reg = reg_call.before)
    /\ (reg_call.op = "set_inbox_url" /\ Len(reg_call.arg) > 256) =>
            (reg_call.err = "InboxUrlTooLong" /\ reg = reg_call.before)

\* set_name was called with 65 bytes on a record that holds a name.
C16_Witness ==
    /\ reg_call.op = "set_name"
    /\ Len(reg_call.arg) = 65
    /\ reg_call.err = "NameTooLong"
    /\ from_le_bytes_u32(reg.name, 0) > 0

(***************************************************************************)
(* C17: through Register and Update a name of exactly 64 bytes with a url  *)
(* of exactly 256 bytes is accepted and stored in full, and a name of 65   *)
(* bytes or a url of 257 bytes makes the call fail and write nothing.      *)
(***************************************************************************)
C17_LimitsExact ==
    \A a \in Authorities, s \in LimitSlots :
        /\ \A b \in Bumps :
              LET ok   == Answer(register_agent_ix(a, TRUE, s, b, NAME_64, URL_256))
                  long == Answer(register_agent_ix(a, TRUE, s, b, NAME_65, URL_1))
                  wide == Answer(register_agent_ix(a, TRUE, s, b, NAME_1, URL_257))
              IN  /\ (/\ Absent(accounts, s)
                      /\ create_program_address(a, b) = s
                      /\ accounts[Payer].lamports >= minimum_balance(LEN)) =>
                          /\ ok.res = "Ok"
                          /\ FieldString(StoredRegistry(ok.accts, s).name) = NAME_64
                          /\ FieldString(StoredRegistry(ok.accts, s).inbox_url) = URL_256
                  /\ long.res # "Ok" /\ long.accts = accounts
                  /\ wide.res # "Ok" /\ wide.accts = accounts
        /\ LET ok   == Answer(update_agent_ix(a, TRUE, s, NAME_64, URL_256))
               long == Answer(update_agent_ix(a, TRUE, s, NAME_65, URL_1))
               wide == Answer(update_agent_ix(a, TRUE, s, NAME_1, URL_257))
           IN  /\ (/\ Registered(accounts, s)
                   /\ StoredRegistry(accounts, s).authority = AddressBytes(a)) =>
                       /\ ok.res = "Ok"
                       /\ FieldString(StoredRegistry(ok.accts, s).name) = NAME_64
                       /\ FieldString(StoredRegistry(ok.accts, s).inbox_url) = URL_256
               /\ long.res # "Ok" /\ long.accts = accounts
               /\ wide.res # "Ok" /\ wide.accts = accounts

\* An Update has stored a 64-byte name and a 256-byte url in full.
C17_Witness ==
    /\ LastSucceeded("Update")
    /\ Registered(accounts, last.slot)
    /\ FieldString(StoredRegistry(accounts, last.slot).name) = NAME_64
    /\ FieldString(StoredRegistry(accounts, last.slot).inbox_url) = URL_256

(***************************************************************************)
(* C18: decoding the bytes that encoding a record produced succeeds and    *)
(* yields a record equal to it in every field.                             *)
(***************************************************************************)
C18_RoundTrip ==
    reg_call.op = "from_bytes" =>
        /\ Len(reg_call.arg) = LEN
        /\ reg_call.err = "Ok"
        /\ reg = reg_call.before

\* A record with a full-length name, updated after it was created, went
\* through to_bytes and from_bytes.
C18_Witness ==
    /\ reg_call.op = "from_bytes"
    /\ reg_call.err = "Ok"
    /\ FieldString(reg.name) = NAME_64
    /\ i64_lt(reg.created_at, reg.updated_at)

(***************************************************************************)
(* C19: in the encoded record every byte of the 68-byte name field and of  *)
(* the 260-byte inbox url field beyond the 4-byte prefix and the current   *)
(* length is zero, after any sequence of set_name / set_inbox_url calls.   *)
(***************************************************************************)
C19_NoStaleBytes ==
    LET bytes == to_bytes(reg)
        name_len == from_le_bytes_u32(reg.name, 0)
        url_len == from_le_bytes_u32(reg.inbox_url, 0)
    IN  /\ \A i \in (4 + name_len + 1)..NAME_FIELD_LEN : bytes[42 + i] = 0
        /\ \A i \in (4 + url_len + 1)..INBOX_URL_FIELD_LEN : bytes[110 + i] = 0

\* set_name has just replaced a 64-byte name by a three-byte one.
C19_Witness ==
    /\ reg_call.op = "set_name"
    /\ reg_call.err = "Ok"
    /\ FieldString(reg_call.before.name) = NAME_64
    /\ FieldString(reg.name) = NAME_1

(***************************************************************************)
(* C20: an Update or Deregister on a slot whose data length is not L, a    *)
(* never-registered slot of length 0 in particular, fails and writes       *)
(* nothing; with the account list and the payload in order the error is    *)
(* InvalidAccountSize.                                                     *)
(***************************************************************************)
C20_WrongSizeRejected ==
    \A ix \in LimitUpdateRequests \cup LimitDeregisterRequests :
        Len(accounts[ix.metas[2].addr].data) # LEN =>
            /\ Answer(ix).res # "Ok"
            /\ Answer(ix).accts = accounts
            /\ (\/ ix.data[1] = DEREGISTER_AGENT
                \/ UpdateAgentData_try_from(Tail(ix.data)).err = "Ok") =>
                    Answer(ix).res = "InvalidAccountSize"

\* An Update or Deregister on a slot that was never registered was turned
\* away for its size.
C20_Witness ==
    /\ last.op \in {"Update", "Deregister"}
    /\ last.res = "InvalidAccountSize"
    /\ Absent(accounts, last.slot)

(***************************************************************************)
(* C21: decoding L stored bytes whose name length prefix exceeds 64 fails  *)
(* with InvalidNameLength, and decoding ones whose inbox length prefix     *)
(* exceeds 256 fails with InvalidInboxUrlLength, so that a handler, which  *)
(* decodes with from_bytes, turns such a stored record away.               *)
(***************************************************************************)
C21_OversizedPrefixRejected ==
    reg_call.op = "decode" =>
        /\ from_le_bytes_u32(reg_call.arg, NAME_OFFSET) > MAX_NAME_LEN =>
                reg_call.err = "InvalidNameLength"
        /\ from_le_bytes_u32(reg_call.arg, INBOX_URL_OFFSET) > MAX_INBOX_URL_LEN =>
                reg_call.err = "InvalidInboxUrlLength"

(***************************************************************************)
(* Vocabulary of the properties on deviating requests                      *)
(***************************************************************************)
\* The requests of the three operations, well-formed and not.
MalformedRequests ==
    MalformedRegisterRequests \cup MalformedUpdateRequests
        \cup MalformedDeregisterRequests

\* The number of accounts the operation of the tag names.
Arity(tag) == IF tag = REGISTER_AGENT THEN 5 ELSE 3

\* The request carries as many accounts as its operation names.
FullList(ix) == Len(ix.metas) = Arity(ix.data[1])

\* The positions that must sign and those that must be writable.
SignerRoles(tag) == IF tag = REGISTER_AGENT THEN {1, 2} ELSE {1}

WritableRoles(tag) ==
    IF tag = REGISTER_AGENT THEN {1, 3}
    ELSE IF tag = UPDATE_AGENT THEN {2} ELSE {1, 2}

MissingSigners(ix) == {i \in SignerRoles(ix.data[1]) : ~ix.metas[i].is_signer}

MissingWritables(ix) == {i \in WritableRoles(ix.data[1]) : ~ix.metas[i].is_writable}

\* The request was turned away with `err`, the accounts as they were.
Rejected(ix, err) == Answer(ix) = Failed(err, accounts)

C23_DeregisterIgnoresPayload ==
    \A ix \in MalformedDeregisterRequests :
        \A d \in DeregisterPayloads :
            process_instruction(accounts, ix.metas, <<DEREGISTER_AGENT>> \o d)
                = process_instruction(accounts, ix.metas, <<DEREGISTER_AGENT>>)

\* A Deregister with three bytes behind its tag closed a record.
C23_Witness ==
    /\ LastSucceeded("Deregister")
    /\ last.data = <<DEREGISTER_AGENT, 1, 2, 3>>
    /\ ZeroFilled(accounts, last.slot)

(***************************************************************************)
(* C24: a request whose account list is shorter than the arity of its      *)
(* operation (5 for Register, 3 for Update and Deregister) fails with      *)
(* NotEnoughAccountKeys, whatever the flags of the accounts it does carry  *)
(* and whatever its payload: no other check runs first.                    *)
(***************************************************************************)
C24_ShortListRejected ==
    \A ix \in MalformedRequests :
        Len(ix.metas) < Arity(ix.data[1]) => Rejected(ix, "NotEnoughAccountKeys")

\* A Register with four accounts, an unsigned payer and no payload was
\* turned away for the length of its list.
C24_Witness ==
    /\ last.op = "Register"
    /\ Len(last.metas) = 4
    /\ ~last.metas[1].is_signer
    /\ last.data = <<REGISTER_AGENT>>
    /\ last.res = "NotEnoughAccountKeys"

(***************************************************************************)
(* C25: the role flags are enforced: Register needs the payer signing and  *)
(* writable, the authority signing and the slot writable; Update the       *)
(* authority signing and the slot writable; Deregister the authority       *)
(* signing and writable and the slot writable.  A request lacking one of   *)
(* them fails and changes no account; with only signer flags lacking the   *)
(* error is MissingRequiredSignature, with only writable flags lacking it  *)
(* is Immutable.                                                           *)
(***************************************************************************)
C25_RoleFlagsEnforced ==
    \A ix \in MalformedRequests :
        FullList(ix) =>
            /\ MissingSigners(ix) \cup MissingWritables(ix) # {} =>
                    /\ Answer(ix).res \in {"MissingRequiredSignature", "Immutable"}
                    /\ Answer(ix).accts = accounts
            /\ MissingSigners(ix) # {} /\ MissingWritables(ix) = {} =>
                    Answer(ix).res = "MissingRequiredSignature"
            /\ MissingSigners(ix) = {} /\ MissingWritables(ix) # {} =>
                    Answer(ix).res = "Immutable"

\* A Deregister of A's record, signed by A and right in all but the
\* authority's writable flag, was turned away.
C25_Witness ==
    /\ last.op = "Deregister"
    /\ last.metas = [ValidDeregister.metas EXCEPT ![1].is_writable = FALSE]
    /\ last.res = "Immutable"
    /\ Registered(accounts, "pda_A_255")

(***************************************************************************)
(* C26: the fixed-address slots are enforced: a request whose this-program *)
(* slot does not hold this program's ID, or a Register whose system        *)
(* program slot does not hold the system program's ID, fails and changes   *)
(* no account; with the role flags in order (and, for Register, the record *)
(* slot absent) the error is IncorrectProgramId.                           *)
(***************************************************************************)
C26_FixedAddressesEnforced ==
    \A ix \in MalformedRequests :
        LET tag == ix.data[1]
            wrong_program == ix.metas[Arity(tag)].addr # PROGRAM_ID
            wrong_system == tag = REGISTER_AGENT /\ ix.metas[4].addr # SYSTEM_ID
        IN  FullList(ix) /\ (wrong_program \/ wrong_system) =>
                /\ Answer(ix).res # "Ok"
                /\ Answer(ix).accts = accounts
                /\ (/\ MissingSigners(ix) \cup MissingWritables(ix) = {}
                    /\ tag = REGISTER_AGENT => Absent(accounts, ix.metas[3].addr)) =>
                        Answer(ix).res = "IncorrectProgramId"

\* An Update of A's record, right in all but the address in the
\* this-program slot, was turned away.
C26_Witness ==
    /\ last.op = "Update"
    /\ last.metas = [ValidUpdate.metas EXCEPT ![3].addr = OTHER_PROGRAM]
    /\ last.res = "IncorrectProgramId"
    /\ Registered(accounts, "pda_A_255")

\* The account checks of a request in their declared order, each with
\* whether the request violates it and the error it then gives.
DeclaredChecks(ix) ==
    LET metas == ix.metas
        unsigned(i) == ~metas[i].is_signer
        readonly(i) == ~metas[i].is_writable
    IN  IF ix.data[1] = REGISTER_AGENT
        THEN << <<unsigned(1), "MissingRequiredSignature">>,
                <<readonly(1), "Immutable">>,
                <<unsigned(2), "MissingRequiredSignature">>,
                <<readonly(3), "Immutable">>,
                <<Len(accounts[metas[3].addr].data) # 0, "AccountAlreadyInitialized">>,
                <<accounts[metas[3].addr].owner # SYSTEM_ID, "IncorrectProgramId">>,
                <<metas[4].addr # SYSTEM_ID, "IncorrectProgramId">>,
                <<metas[5].addr # PROGRAM_ID, "IncorrectProgramId">> >>
        ELSE IF ix.data[1] = UPDATE_AGENT
        THEN << <<unsigned(1), "MissingRequiredSignature">>,
                <<readonly(2), "Immutable">>,
                <<metas[3].addr # PROGRAM_ID, "IncorrectProgramId">> >>
        ELSE << <<unsigned(1), "MissingRequiredSignature">>,
                <<readonly(1), "Immutable">>,
                <<readonly(2), "Immutable">>,
                <<metas[3].addr # PROGRAM_ID, "IncorrectProgramId">> >>

\* The positions in the declared order of the checks the request violates.
Violated(ix) == {i \in DOMAIN DeclaredChecks(ix) : DeclaredChecks(ix)[i][1]}

(***************************************************************************)
(* C27: the account checks run in one fixed order and stop at the first    *)
(* violation: a request with a full account list that violates one or more *)
(* of them fails, changing no account, with the error of the earliest      *)
(* violated check in the declared order (for Register: payer signer, payer *)
(* writable, authority signer, slot writable, slot empty, slot             *)
(* system-owned, system-program address, this-program address).            *)
(***************************************************************************)
C27_EarliestViolationReported ==
    \A ix \in MalformedRequests :
        FullList(ix) /\ Violated(ix) # {} =>
            \E i \in Violated(ix) :
                /\ \A j \in Violated(ix) : i <= j
                /\ Rejected(ix, DeclaredChecks(ix)[i][2])

\* A Register whose payer is read-only and whose authority has not signed
\* was turned away for the payer's flag, the earlier of the two.
C27_Witness ==
    /\ last.op = "Register"
    /\ Len(last.metas) = 5
    /\ last.metas[1].is_signer /\ ~last.metas[1].is_writable
    /\ ~last.metas[2].is_signer
    /\ last.res = "Immutable"

(***************************************************************************)
(* C28: a Register whose record slot is not at the address derived from    *)
(* the seed prefix, the authority's key and the supplied bump (a wrong     *)
(* bump, or the slot of another authority) fails, allocating and writing   *)
(* nothing; with the slot absent and the payload in order the error is     *)
(* InvalidSeeds.                                                           *)
(***************************************************************************)
C28_SeedsMismatchRejected ==
    \A ix \in LimitRegisterRequests :
        LET authority == ix.metas[2].addr
            slot == ix.metas[3].addr
            bump == ix.data[2]
        IN  create_program_address(authority, bump) # slot =>
                /\ Answer(ix).res # "Ok"
                /\ Answer(ix).accts = accounts
                /\ (/\ Absent(accounts, slot)
                    /\ RegisterAgentData_try_from(Tail(ix.data)).err = "Ok") =>
                        Answer(ix).res = "InvalidSeeds"

\* B's Register on the absent slot derived from A's key was turned away
\* for its seeds.
C28_Witness ==
    /\ last.op = "Register"
    /\ last.authority = "B"
    /\ last.slot = "pda_A_255"
    /\ last.res = "InvalidSeeds"
    /\ Absent(accounts, "pda_A_255")

(***************************************************************************)
(* C29: Register and Update with an empty name fail: Register creates no   *)
(* record and Update leaves the stored record as it was.  The formula is   *)
(* the Update half: an Update whose payload carries a name of length zero  *)
(* does not succeed.                                                       *)
(***************************************************************************)
C29_EmptyNameRejected ==
    (/\ last.op = "Update"
     /\ UpdateAgentData_try_from(Tail(last.data)).err = "Ok"
     /\ UpdateAgentData_try_from(Tail(last.data)).name = <<>>)
        => last.res # "Ok"

(***************************************************************************)
(* C30: Register and Update with an inbox URL that is not https fail:      *)
(* Register creates no record and Update leaves the stored record as it    *)
(* was.  The formula is the Update half: an Update whose payload carries   *)
(* an inbox URL that does not begin with "https://" does not succeed.      *)
(***************************************************************************)
C30_NonHttpsRejected ==
    (/\ last.op = "Update"
     /\ UpdateAgentData_try_from(Tail(last.data)).err = "Ok"
     /\ SubSeq(UpdateAgentData_try_from(Tail(last.data)).inbox_url, 1, 8)
            # SubSeq(URL_1, 1, 8))
        => last.res # "Ok"

(***************************************************************************)
(* C31: the Update payload decoder gives one error per malformation: an    *)
(* empty payload InvalidInstructionData, a name longer than 64 bytes       *)
(* NameTooLong, a url longer than 256 bytes InboxUrlTooLong, bytes that    *)
(* are not UTF-8 in either string InvalidUtf8; and a well-formed payload   *)
(* decodes to exactly the name and the url it encodes, two empty strings   *)
(* included.                                                               *)
(***************************************************************************)
C31_PayloadDecoding ==
    reg_call.op = "try_from" =>
        /\ reg_call.arg = <<>> => reg_call.err = "InvalidInstructionData"
        /\ \A n \in PayloadNames, u \in PayloadUrls :
                reg_call.arg = EncodeStrings(n, u) =>
                    /\ n = NAME_65 => reg_call.err = "NameTooLong"
                    /\ n \in GoodNames /\ u = URL_257 =>
                            reg_call.err = "InboxUrlTooLong"
                    /\ n \in BadUtf8Strings => reg_call.err = "InvalidUtf8"
                    /\ n \in GoodNames /\ u \in BadUtf8Strings =>
                            reg_call.err = "InvalidUtf8"
                    /\ n \in GoodNames /\ u \in GoodUrls =>
                            /\ reg_call.err = "Ok"
                            /\ reg_call.name = n
                            /\ reg_call.inbox_url = u

\* The payload of test_update_agent_data_invalid_utf8 was decoded.
C31_Witness ==
    /\ reg_call.op = "try_from"
    /\ reg_call.arg = EncodeStrings(<<255, 254, 253, 252>>, <<116, 101, 115, 116>>)
    /\ reg_call.err = "InvalidUtf8"

(***************************************************************************)
(* C37: the Update payload decoder compares a length prefix with the       *)
(* field's capacity before it slices: a payload whose name prefix exceeds  *)
(* 64 fails with NameTooLong, and one whose url prefix exceeds 256 with    *)
(* InboxUrlTooLong, also when fewer bytes follow than the prefix           *)
(* announces; and the decoder never reads past the end of the payload.     *)
(***************************************************************************)
C37_BoundBeforeSlice ==
    reg_call.op = "try_from" =>
        /\ Len(reg_call.arg) >= 4 /\ from_le_bytes_u32(reg_call.arg, 0) > MAX_NAME_LEN =>
                reg_call.err = "NameTooLong"
        /\ reg_call.arg \in OverstatedNamePayloads => reg_call.err = "NameTooLong"
        /\ reg_call.arg \in OverstatedUrlPayloads => reg_call.err = "InboxUrlTooLong"
        /\ reg_call.read <= Len(reg_call.arg)

\* A payload of four bytes announcing a name of 0xFFFFFFFF bytes was
\* turned away for the name's length.
C37_Witness ==
    /\ reg_call.op = "try_from"
    /\ reg_call.arg = <<255, 255, 255, 255>>
    /\ reg_call.err = "NameTooLong"
    /\ reg_call.read = 4

(***************************************************************************)
(* C32: a call that returns an error has written nothing: whatever the     *)
(* request and the state, if the program answers with an error then the    *)
(* accounts it hands back, in bytes, size, owner and balance, are the ones *)
(* it was given.                                                           *)
(***************************************************************************)
C32_FailureWritesNothing ==
    \A ix \in MalformedRequests \cup UnknownTagRequests :
        Answer(ix).res # "Ok" => Answer(ix).accts = accounts

\* A's Deregister of the record another program keeps for B was turned
\* away for its authority, behind every other check.
C32_Witness ==
    /\ last.op = "Deregister"
    /\ last.slot = FOREIGN_SLOT
    /\ last.res = "InvalidAuthority"
    /\ accounts[FOREIGN_SLOT].data = ForeignData

(***************************************************************************)
(* C33: after a successful Register the record slot holds exactly 384      *)
(* bytes (the struct's DATA_LEN), and that is the length Update and        *)
(* Deregister require of the slot.                                         *)
(***************************************************************************)
C33_RecordIs384Bytes ==
    LastSucceeded("Register") =>
        /\ Len(accounts[last.slot].data) = DATA_LEN
        /\ LEN = DATA_LEN

(***************************************************************************)
(* C34: the account list is validated before the payload is decoded and    *)
(* without looking at it: an Update or a Deregister whose account list is  *)
(* refused gets the account validator's error whatever bytes follow the    *)
(* tag, a payload the decoder would refuse included, and no account        *)
(* changes.                                                                *)
(***************************************************************************)
C34_AccountsBeforePayload ==
    \A ix \in MalformedUpdateRequests \cup MalformedDeregisterRequests :
        \A d \in InvalidUpdatePayloads \cup DeregisterPayloads
                    \cup {Tail(ValidUpdate.data)} :
            \E a \in { IF ix.data[1] = UPDATE_AGENT
                        THEN UpdateAgentAccounts_try_from(accounts, ix.metas)
                        ELSE DeregisterAgentAccounts_try_from(accounts, ix.metas) } :
                a # "Ok" =>
                    process_instruction(accounts, ix.metas, <<ix.data[1]>> \o d)
                        = Failed(a, accounts)

\* An unsigned Update of a registered slot with a payload the decoder
\* refuses, turned away for the missing signature.
C34_Witness ==
    /\ last.op = "Update"
    /\ last.res = "MissingRequiredSignature"
    /\ Tail(last.data) \in InvalidUpdatePayloads
    /\ UpdateAgentData_try_from(Tail(last.data)).err # "Ok"
    /\ Registered(accounts, "pda_A_255")

(***************************************************************************)
(* C36: once the account list and the payload of an Update are accepted,   *)
(* the handler compares the slot's size, decodes the record, compares the  *)
(* authority and only then sets the fields, and answers with the first     *)
(* check that fails: InvalidAccountSize before InvalidAccountData before   *)
(* InvalidAuthority before NameTooLong / InboxUrlTooLong.                  *)
(***************************************************************************)
C36_UpdateCheckOrder ==
    \A ix \in LimitUpdateRequests :
        \E r \in {Answer(ix).res} :
            ( /\ UpdateAgentAccounts_try_from(accounts, ix.metas) = "Ok"
              /\ UpdateAgentData_try_from(Tail(ix.data)).err = "Ok" ) =>
                \E stored \in {accounts[ix.metas[2].addr].data} :
                    IF Len(stored) # LEN THEN r = "InvalidAccountSize"
                    ELSE IF from_bytes(stored).err # "Ok" THEN r = "InvalidAccountData"
                    ELSE IF validate_authority(from_bytes(stored).registry,
                                               AddressBytes(ix.metas[1].addr)) # "Ok"
                    THEN r = "InvalidAuthority"
                    ELSE r \notin {"InvalidAccountSize", "InvalidAccountData",
                                   "InvalidAuthority", "NameTooLong", "InboxUrlTooLong"}

\* The other authority's Update of a slot that is too short to hold a
\* record: neither size, decoding nor authority would pass, and the size is
\* what is reported.
C36_Witness ==
    /\ last.op = "Update"
    /\ last.authority = "B"
    /\ last.slot = FOREIGN_SHORT_SLOT
    /\ last.res = "InvalidAccountSize"
    /\ from_bytes(accounts[FOREIGN_SHORT_SLOT].data).err # "Ok"
    /\ Registered(accounts, "pda_A_255")

(***************************************************************************)
(* C38: the number of accounts is exact: a request with more accounts than *)
(* its operation names (more than 5 for Register, more than 3 for Update   *)
(* and Deregister) is turned away with NotEnoughAccountKeys, as one with   *)
(* fewer is, and no account changes.                                       *)
(***************************************************************************)
C38_LongListRejected ==
    /\ \A ix \in MalformedRequests :
            Len(ix.metas) > Arity(ix.data[1]) => Rejected(ix, "NotEnoughAccountKeys")
    /\ \A ix \in MalformedRequests :
            \A extra \in { << Meta(Payer, FALSE, FALSE) >>,
                           << Meta(SYSTEM_ID, FALSE, FALSE), Meta("B", TRUE, TRUE) >> } :
                FullList(ix) =>
                    process_instruction(accounts, ix.metas \o extra, ix.data)
                        = Failed("NotEnoughAccountKeys", accounts)

\* An Update of a registered slot, well-formed but for a fourth account,
\* turned away for the length of its list.
C38_Witness ==
    /\ last.op = "Update"
    /\ Len(last.metas) = 4
    /\ SubSeq(last.metas, 1, 3) = ValidUpdate.metas
    /\ last.data = ValidUpdate.data
    /\ last.res = "NotEnoughAccountKeys"
    /\ Registered(accounts, "pda_A_255")

(***************************************************************************)
(* C39: Register never answers RegistryAlreadyExists: a slot that holds    *)
(* any bytes is turned away by the account validator's emptiness check     *)
(* with AccountAlreadyInitialized before the handler looks at the slot's   *)
(* length, so the handler's own check never fails.                         *)
(***************************************************************************)
C39_RegistryAlreadyExistsUnreachable ==
    \A ix \in LimitRegisterRequests :
        \E r \in {Answer(ix).res} :
            /\ r # "RegistryAlreadyExists"
            /\ Len(accounts[ix.metas[3].addr].data) # 0 => r = "AccountAlreadyInitialized"

\* A Register by the slot's own authority, with the right bump, on its
\* registered slot: every check before the handler's length check would
\* pass but the validator's, and that one answered.
C39_Witness ==
    /\ last.op = "Register"
    /\ last.authority = "A"
    /\ last.slot = "pda_A_255"
    /\ last.res = "AccountAlreadyInitialized"
    /\ Registered(accounts, "pda_A_255")
    /\ StoredRegistry(accounts, "pda_A_255").authority = AddressBytes("A")

BatchDone == last.pending = {} /\ Len(last.done) > 0

\* The name and inbox URL a Register or an Update asks for.
RequestedPair(ix) ==
    IF ix.data[1] = REGISTER_AGENT
    THEN << RegisterAgentData_try_from(Tail(ix.data)).name,
            RegisterAgentData_try_from(Tail(ix.data)).inbox_url >>
    ELSE << UpdateAgentData_try_from(Tail(ix.data)).name,
            UpdateAgentData_try_from(Tail(ix.data)).inbox_url >>

\* The name and inbox URL of the record in the slot.
StoredPair(accts, slot) ==
    << get_name(StoredRegistry(accts, slot)).name,
       get_inbox_url(StoredRegistry(accts, slot)).inbox_url >>

C35_BatchIsSerial ==
    BatchDone =>
        /\ \E o \in Orders({ last.done[i].ix : i \in DOMAIN last.done }) :
                accounts = RunInOrder(last.start, o)
        /\ Registered(accounts, "pda_A_255") =>
                \/ /\ Registered(last.start, "pda_A_255")
                   /\ StoredPair(accounts, "pda_A_255")
                        = StoredPair(last.start, "pda_A_255")
                \/ \E i \in DOMAIN last.done :
                        /\ last.done[i].res = "Ok"
                        /\ last.done[i].ix.data[1] \in {REGISTER_AGENT, UPDATE_AGENT}
                        /\ StoredPair(accounts, "pda_A_255")
                                = RequestedPair(last.done[i].ix)
        /\ ( /\ Len(last.start["pda_A_255"].data) = 0
             /\ Cardinality({ i \in DOMAIN last.done :
                                last.done[i].ix.data[1] = REGISTER_AGENT }) >= 2 ) =>
                Cardinality({ i \in DOMAIN last.done :
                                /\ last.done[i].ix.data[1] = REGISTER_AGENT
                                /\ last.done[i].res = "Ok" }) = 1

\* Two Updates with different strings were submitted at once on a
\* registered slot, both succeeded, and the record carries the strings of
\* the one that ran second.
C35_Witness ==
    /\ BatchDone
    /\ Len(last.done) = 2
    /\ \A i \in 1..2 : last.done[i].ix.data[1] = UPDATE_AGENT /\ last.done[i].res = "Ok"
    /\ RequestedPair(last.done[1].ix) # RequestedPair(last.done[2].ix)
    /\ Registered(last.start, "pda_A_255")
    /\ StoredPair(last.start, "pda_A_255") = RequestedPair(last.done[2].ix)
    /\ StoredPair(accounts, "pda_A_255") = RequestedPair(last.done[2].ix)

=============================================================================
